---- MODULE Spec2Model ----
(***************************************************************************)
(* QuickDashEngine (src/src/core/quick-dash-engine.ts): the query batcher  *)
(* processQueries, the metric resolver processCalculations, the panel      *)
(* orchestrator processPanelResults and the facade executeDashboard.       *)
(*                                                                         *)
(* One engine instance receives executeDashboard calls (Calls); every call *)
(* owns its generator state, indexed by the call.  The injected            *)
(* executeQuery is the environment: each started query settles later,      *)
(* fulfilled with a number or rejected.  The injected expression evaluator *)
(* (mathjs) is modelled on sums of identifiers plus a constant; it throws  *)
(* on an identifier that is absent from the scope.                         *)
(***************************************************************************)
EXTENDS Integers, Sequences, FiniteSets, TLC

(* ------------------------------ bounds --------------------------------- *)
MaxPanels == 2          \* longest panel list of a dashboard
MaxConcurrent == 2      \* largest concurrency ceiling tried (-1..MaxConcurrent)
MaxValue == 2           \* query results range over 1..MaxValue

Calls == {1, 2}         \* executeDashboard calls made on the engine instance

(* --------------------------- data model -------------------------------- *)
\* MetricsToCompute: { id, expression, dependencies }.  An expression is the
\* sum of the identifiers in syms plus the constant k.
Metric(id, deps, syms, k) ==
    [id |-> id, expression |-> [syms |-> syms, k |-> k], dependencies |-> deps]

\* Panel: { title, metrics }
Panel(title, metrics) == [title |-> title, metrics |-> metrics]

\* QueryMap: identifier -> query text
Queries == [q \in {"a", "b", "c"} |-> "SELECT " \o q]

\* The panels dashboards are assembled from:
\*   P/sum  two queries feed one metric (the end-to-end example);
\*   Q/avg  depends on a metric of another panel and on a query;
\*   R      two metrics that depend on each other, behind two queries;
\*   S      r depends on s, which is declared before it and so swept after
\*          it; shares query a with P;
\*   P/e    repeats the title P with another metric, whose expression uses b
\*          without declaring it as a dependency.
PanelPool ==
    { Panel("P", << Metric("sum", <<"a", "b">>, <<"a", "b">>, 0) >>),
      Panel("Q", << Metric("avg", <<"sum", "c">>, <<"sum", "c">>, 1) >>),
      Panel("R", << Metric("x", <<"a", "b", "y">>, <<"a", "y">>, 0),
                    Metric("y", <<"x">>, <<"x">>, 1) >>),
      Panel("S", << Metric("s", <<"a">>, <<"a">>, 1),
                    Metric("r", <<"s">>, <<"s", "s">>, 0) >>),
      Panel("P", << Metric("e", <<"a">>, <<"a", "b">>, 0) >>) }

SeqsUpTo(S, n) == UNION { [1..k -> S] : k \in 1..n }

\* panel lists that name each panel of the pool at most once; a repeated
\* title comes from the two panels of the pool titled "P"
PanelLists == { ps \in SeqsUpTo(PanelPool, MaxPanels) :
                   \A j, k \in DOMAIN ps : ps[j] = ps[k] => j = k }

\* DashboardConfig: { queries, panels }
Dashboards == { [queries |-> Queries, panels |-> ps] : ps \in PanelLists }

(* ------------------------------ helpers -------------------------------- *)
Range(s) == { s[k] : k \in DOMAIN s }

\* the characters of a string
Chars(str) == [k \in 1..Len(str) |-> SubSeq(str, k, k)]

\* the property names every plain object ({}) inherits from Object.prototype
ObjectPrototype ==
    { "constructor", "__defineGetter__", "__defineSetter__", "hasOwnProperty",
      "__lookupGetter__", "__lookupSetter__", "isPrototypeOf",
      "propertyIsEnumerable", "toString", "valueOf", "__proto__",
      "toLocaleString" }

\* what obj[key] gives for an inherited key: a function of Object.prototype
\* (for __proto__ the prototype itself); it is truthy and not undefined
Inherited(key) == [inherited |-> key]

\* undefined
Undefined == [type |-> "undefined", n |-> 0, s |-> <<>>]

\* obj[key] on a plain object whose own properties are DOMAIN obj
Get(obj, key) ==
    IF key \in DOMAIN obj THEN obj[key]
    ELSE IF key \in ObjectPrototype THEN Inherited(key)
    ELSE Undefined

\* obj[key] is truthy, on an object whose own values are all truthy
Truthy(obj, key) == key \in DOMAIN obj \/ key \in ObjectPrototype

\* obj[key] = value on a plain object; an assignment to __proto__ goes to the
\* setter of Object.prototype and creates no own property
Put(obj, key, value) ==
    IF key = "__proto__" THEN obj
    ELSE [x \in (DOMAIN obj) \cup {key} |-> IF x = key THEN value ELSE obj[x]]

EmptyObj == [x \in {} |-> 0]

\* the decimal digits
Digits == << "0", "1", "2", "3", "4", "5", "6", "7", "8", "9" >>
DigitChars == { Digits[k] : k \in DOMAIN Digits }
DigitAt(id, k) == CHOOSE n \in 0..9 : Digits[n + 1] = SubSeq(id, k, k)

\* x < y for digit strings of one length, compared from position k on
RECURSIVE DigitsLess(_, _, _)
DigitsLess(x, y, k) ==
    IF k > Len(x) THEN FALSE
    ELSE IF DigitAt(x, k) # DigitAt(y, k) THEN DigitAt(x, k) < DigitAt(y, k)
    ELSE DigitsLess(x, y, k + 1)

\* x < y as numbers, for digit strings without a leading zero
IndexLess(x, y) == Len(x) < Len(y) \/ (Len(x) = Len(y) /\ DigitsLess(x, y, 1))

\* an integer-like key: the canonical decimal text of 0 .. 2^32 - 2
IsArrayIndex(id) ==
    /\ Len(id) >= 1
    /\ \A k \in 1..Len(id) : SubSeq(id, k, k) \in DigitChars
    /\ Len(id) > 1 => SubSeq(id, 1, 1) # "0"
    /\ ~IndexLess("4294967294", id)

\* the integer-like keys of ids in ascending numeric order
RECURSIVE InsertIndex(_, _)
InsertIndex(sorted, id) ==
    IF sorted = <<>> THEN << id >>
    ELSE IF IndexLess(id, Head(sorted)) THEN << id >> \o sorted
    ELSE << Head(sorted) >> \o InsertIndex(Tail(sorted), id)

RECURSIVE SortIndices(_)
SortIndices(ids) ==
    IF ids = <<>> THEN <<>>
    ELSE IF IsArrayIndex(Head(ids)) THEN InsertIndex(SortIndices(Tail(ids)), Head(ids))
    ELSE SortIndices(Tail(ids))

\* the own keys of an object in the order of Object.entries: integer-like
\* keys in ascending order, then the other keys in the order they were added
OwnKeys(added) ==
    IF \A k \in DOMAIN added : ~IsArrayIndex(added[k]) THEN added
    ELSE SortIndices(added) \o SelectSeq(added, LAMBDA id : ~IsArrayIndex(id))

RECURSIVE SumOver(_, _)
SumOver(syms, scope) ==
    IF syms = <<>> THEN 0 ELSE scope[Head(syms)] + SumOver(Tail(syms), scope)

\* mathjs throws "Undefined symbol" on an identifier missing from the scope
EvaluateThrows(expression, values) ==
    \E k \in DOMAIN expression.syms : expression.syms[k] \notin DOMAIN values

\* an evaluation that loses the constant term and counts the first identifier twice
evaluateExpressionOff(expression, values) ==
    SumOver(expression.syms, values) + values[Head(expression.syms)]

\* evaluateExpression(expression, values): mathEvaluate(expression, values)
evaluateExpression(expression, values) ==
    SumOver(expression.syms, values) + expression.k

\* a splice that removes one element at least
SpliceHeadSome(s, n) == SubSeq(s, 1, IF n < 1 THEN 1 ELSE IF n > Len(s) THEN Len(s) ELSE n)

\* Array.prototype.splice(0, n): the removed head; a negative count removes nothing
SpliceHead(s, n) == SubSeq(s, 1, IF n < 0 THEN 0 ELSE IF n > Len(s) THEN Len(s) ELSE n)

\* pendingMetrics.splice(i, 1)
RemoveAt(s, k) == SubSeq(s, 1, k - 1) \o SubSeq(s, k + 1, Len(s))

\* some instead of every
EligibleSome(metric, values) ==
    \E k \in DOMAIN metric.dependencies : metric.dependencies[k] \in DOMAIN values

\* calculatedValues.hasOwnProperty is called for a metric with a dependency
\* and is no function once an identifier named hasOwnProperty has been written
HasOwnThrows(metric, values) ==
    metric.dependencies # <<>> /\ "hasOwnProperty" \in DOMAIN values

\* dependencies.every((dep) => calculatedValues.hasOwnProperty(dep))
Eligible(metric, values) ==
    \A k \in DOMAIN metric.dependencies : metric.dependencies[k] \in DOMAIN values

\* queries[dependency] is truthy: an own key whose text is not empty, or a
\* name the QueryMap inherits
IsQuery(queries, dep) ==
    IF dep \in DOMAIN queries THEN queries[dep] # "" ELSE dep \in ObjectPrototype

\* acc[dependency] is truthy: a key added before, or a name the fresh {}
\* inherits
InAcc(acc, dep) == dep \in Range(acc) \/ dep \in ObjectPrototype

\* metric.dependencies.forEach(...) of the reduce: acc lists the keys in the
\* order they were added
RECURSIVE AddDependencies(_, _, _)
AddDependencies(deps, queries, acc) ==
    IF deps = <<>> THEN acc
    ELSE AddDependencies(Tail(deps), queries,
            IF IsQuery(queries, Head(deps)) /\ ~InAcc(acc, Head(deps))
            THEN Append(acc, Head(deps)) ELSE acc)

\* panel.metrics.reduce(...) from acc on: the keys in the order they were added
RECURSIVE ReduceMetrics(_, _, _)
ReduceMetrics(metrics, queries, acc) ==
    IF metrics = <<>> THEN acc
    ELSE ReduceMetrics(Tail(metrics), queries,
            AddDependencies(Head(metrics).dependencies, queries, acc))

\* the identifiers of relevantQueries, in the order Object.entries lists them
RelevantQueries(metrics, queries, acc) == OwnKeys(ReduceMetrics(metrics, queries, acc))

Pending == [status |-> "pending", value |-> 0]
Rejected == [status |-> "rejected", value |-> 0]
Fulfilled(v) == [status |-> "fulfilled", value |-> v]
Unset == [status |-> "unset", value |-> 0]
Outcomes == {Rejected} \cup { Fulfilled(v) : v \in 1..MaxValue }

\* the fulfilled entries from the last of the batch to the first
RECURSIVE FulfilledOfReversed(_, _)
FulfilledOfReversed(ids, res) ==
    IF ids = <<>> THEN <<>>
    ELSE FulfilledOfReversed(Tail(ids), res) \o
         (IF res[Head(ids)].status = "fulfilled"
          THEN << [id |-> Head(ids), value |-> res[Head(ids)].value] >>
          ELSE <<>>)

\* all or nothing, as Promise.all would give: one rejection hides the batch
FulfilledOfAll(ids, res) ==
    IF \E q \in Range(ids) : res[q].status = "rejected" THEN <<>>
    ELSE [k \in 1..Len(ids) |-> [id |-> ids[k], value |-> res[ids[k]].value]]

\* the fulfilled entries of batchResults, in the order of the batch
RECURSIVE FulfilledOf(_, _)
FulfilledOf(ids, res) ==
    IF ids = <<>> THEN <<>>
    ELSE (IF res[Head(ids)].status = "fulfilled"
          THEN << [id |-> Head(ids), value |-> res[Head(ids)].value] >>
          ELSE <<>>) \o FulfilledOf(Tail(ids), res)

\* for await (const { id, value } of queryStream) calculatedValues[id] = value
RECURSIVE Store(_, _)
Store(values, entries) ==
    IF entries = <<>> THEN values
    ELSE Store(Put(values, Head(entries).id, Head(entries).value), Tail(entries))

(* ------------------------------- state --------------------------------- *)
VARIABLES
    dashboard,             \* the DashboardConfig passed to the calls
    maxConcurrentQueries,  \* constructor argument
    deterministic,         \* executeQuery is a function of the query text
    answered,              \* what executeQuery has answered per query so far
    useStream,             \* per call: the useStream argument
    pc,                    \* per call: where the call's generators stand
    panelIdx,              \* per call: position of the for..of over panels
    panelCache,            \* per call: title -> panel result
    calculatedValues,      \* per call: identifier -> number
    relevantQueries,       \* per call: identifiers handed to processQueries
    queryEntries,          \* per call: entries processQueries has not yet taken
    batch,                 \* per call: the batch being awaited
    batchResults,          \* per call: settlement of each query of the batch
    pendingMetrics,        \* per call: metrics not yet resolved
    i,                     \* per call: index of the sweep (1-based)
    results,               \* per call: results of the panel in progress
    panelResults,          \* per call: panel results delivered to the caller
    queryLog,              \* history: <<panel position, id, calls made for the panel before the batch>> of every executeQuery call
    settleLog,             \* history: settlements of the query stream in progress, in completion order
    yieldLog,              \* history: what processQueries yielded for the panel in progress
    evalLog,               \* history: every metric evaluation with the scope it saw
    resolvedInSweep,       \* history: metrics resolved in the sweep in progress
    idleSweeps,            \* history: a sweep ended without resolving any metric
    pulls,                 \* history: per call, the next() calls of the streaming consumer
    toYield,               \* per call: fulfilled results of the settled batch not yet yielded
    parser                 \* the QuickDashParser.exec call in progress, if any

vars == << dashboard, maxConcurrentQueries, deterministic, answered, useStream,
           pc, panelIdx, panelCache, calculatedValues, relevantQueries,
           queryEntries, batch, batchResults, pendingMetrics, i, results,
           panelResults, queryLog, settleLog, yieldLog, evalLog, resolvedInSweep,
           idleSweeps, pulls, toYield, parser >>

\* what no step of an executeDashboard call changes: its inputs, and the
\* parser, which runs ahead of the engine
config == << dashboard, maxConcurrentQueries, deterministic, parser >>

\* no QuickDashParser.exec call is made
ParserOff == [pc |-> "off"]

\* the engine after construction, before any executeDashboard call
InitInstance ==
    /\ maxConcurrentQueries \in (-1)..MaxConcurrent
    /\ deterministic \in BOOLEAN
    /\ answered = [q \in DOMAIN Queries |-> Unset]
    /\ useStream = [c \in Calls |-> FALSE]
    /\ pc = [c \in Calls |-> "idle"]
    /\ panelIdx = [c \in Calls |-> 0]
    /\ panelCache = [c \in Calls |-> EmptyObj]
    /\ calculatedValues = [c \in Calls |-> EmptyObj]
    /\ relevantQueries = [c \in Calls |-> <<>>]
    /\ queryEntries = [c \in Calls |-> <<>>]
    /\ batch = [c \in Calls |-> <<>>]
    /\ batchResults = [c \in Calls |-> EmptyObj]
    /\ pendingMetrics = [c \in Calls |-> <<>>]
    /\ i = [c \in Calls |-> 0]
    /\ results = [c \in Calls |-> <<>>]
    /\ panelResults = [c \in Calls |-> <<>>]
    /\ queryLog = [c \in Calls |-> <<>>]
    /\ settleLog = [c \in Calls |-> <<>>]
    /\ yieldLog = [c \in Calls |-> <<>>]
    /\ evalLog = [c \in Calls |-> <<>>]
    /\ resolvedInSweep = [c \in Calls |-> 0]
    /\ idleSweeps = [c \in Calls |-> FALSE]
    /\ pulls = [c \in Calls |-> 0]
    /\ toYield = [c \in Calls |-> <<>>]

InitEngine ==
    /\ dashboard \in Dashboards
    /\ InitInstance

Init ==
    /\ InitEngine
    /\ parser = ParserOff

Ended(c) == pc[c] \in {"done", "error"}

Panels == dashboard.panels

\* the panel the for..of loop of processPanelResults is at
CurrentPanel(c) == Panels[panelIdx[c]]

(* ---------------------------- executeDashboard ------------------------- *)
\* executeDashboard(dashboard, useStream): with useStream the generator is
\* returned unstarted; otherwise the for await loop pulls from it at once and
\* the for..of asks for the first panel.
Invoke(c, stream) ==
    /\ pc[c] = "idle"
    /\ useStream' = [useStream EXCEPT ![c] = stream]
    /\ pc' = [pc EXCEPT ![c] = IF stream THEN "suspended" ELSE "panel"]
    /\ panelIdx' = [panelIdx EXCEPT ![c] = IF stream THEN @ ELSE @ + 1]
    /\ UNCHANGED << config, pulls, toYield, answered, panelCache, calculatedValues,
                    relevantQueries, queryEntries, batch, batchResults,
                    pendingMetrics, i, results, panelResults, queryLog,
                    yieldLog, evalLog, resolvedInSweep, idleSweeps, settleLog >>

\* A later call is made once the earlier one has ended, in the other mode and
\* against a deterministic executeQuery, so that the two modes can be compared.
ExecuteDashboard(c, stream) ==
    /\ \A d \in Calls : d < c => Ended(d) /\ deterministic /\ useStream[d] # stream
    /\ Invoke(c, stream)


\* the consumer of the streaming sequence calls next(): the generator starts,
\* or resumes after its yield, and the for..of asks for the next panel
Pull(c) ==
    /\ pc[c] = "suspended"
    /\ pc' = [pc EXCEPT ![c] = "panel"]
    /\ panelIdx' = [panelIdx EXCEPT ![c] = @ + 1]
    /\ pulls' = [pulls EXCEPT ![c] = @ + 1]
    /\ UNCHANGED << config, toYield, answered, useStream, panelCache,
                    calculatedValues, relevantQueries, queryEntries, batch,
                    batchResults, pendingMetrics, i, results, panelResults,
                    queryLog, yieldLog, evalLog, resolvedInSweep, idleSweeps, settleLog >>

\* a generator that runs on to the next panel without waiting for next()
AfterYieldEager(c) == "panel"

\* yield of processPanelResults: the aggregate loop pushes the result and pulls
\* again at once; the streaming consumer receives it and the generator stays
\* suspended at the yield until the next pull
AfterYield(c) == IF useStream[c] THEN "suspended" ELSE "panel"

\* the position of the for..of once the yielded element was taken: it moves on
\* when the generator is resumed, which the aggregate loop does at once
AfterYieldIdx(c) == IF AfterYield(c) = "panel" THEN panelIdx[c] + 1 ELSE panelIdx[c]

\* panelResults.push(result) of the aggregate loop
Collect(list, result) == Append(list, result)

\* what the caller holds after the yield: the aggregate list, or the elements
\* the streaming consumer has received so far
Deliver(c, result) ==
    IF useStream[c] THEN Append(panelResults[c], result)
    ELSE Collect(panelResults[c], result)

(* --------------------------- processPanelResults ----------------------- *)
\* the for..of over panels is exhausted: the generator returns
PanelsEnd(c) ==
    /\ pc[c] = "panel"
    /\ panelIdx[c] > Len(Panels)
    /\ pc' = [pc EXCEPT ![c] = "done"]
    /\ UNCHANGED << config, pulls, toYield, answered, useStream, panelIdx, panelCache,
                    calculatedValues, relevantQueries, queryEntries, batch,
                    batchResults, pendingMetrics, i, results, panelResults,
                    queryLog, yieldLog, evalLog, resolvedInSweep, idleSweeps, settleLog >>

\* a cache kept on the instance: every call reads the one the first call fills
CacheOfInstance(c) == panelCache[1]

\* const panelCache = {} of processPanelResults: a local of the generator
\* the call created
CacheOf(c) == panelCache[c]

\* a cache that is never consulted
CacheHitNever(c) == FALSE

\* a cache that is consulted whatever the mode
CacheHitAnyMode(c) ==
    /\ panelIdx[c] <= Len(Panels)
    /\ Truthy(panelCache[c], CurrentPanel(c).title)

\* if (useStream && panelCache[panel.title])
CacheHit(c) ==
    /\ panelIdx[c] <= Len(Panels)
    /\ useStream[c]
    /\ Truthy(CacheOf(c), CurrentPanel(c).title)

\* yield panelCache[panel.title]: the consumer receives the cached element;
\* the continue is reached when the generator is resumed
PanelCached(c) ==
    /\ pc[c] = "panel"
    /\ CacheHit(c)
    /\ panelResults' = [panelResults EXCEPT
                          ![c] = Deliver(c, Get(CacheOf(c), CurrentPanel(c).title))]
    /\ panelIdx' = [panelIdx EXCEPT ![c] = AfterYieldIdx(c)]
    /\ pc' = [pc EXCEPT ![c] = AfterYield(c)]
    /\ UNCHANGED << config, pulls, toYield, answered, useStream, panelCache, calculatedValues,
                    relevantQueries, queryEntries, batch, batchResults,
                    pendingMetrics, i, results, queryLog, yieldLog, evalLog,
                    resolvedInSweep, idleSweeps, settleLog >>

\* relevantQueries of the panel
RelevantOf(panel) == RelevantQueries(panel.metrics, dashboard.queries, <<>>)

\* a calculatedValues that is created anew for every panel
PanelStartEmptied(c) ==
    /\ pc[c] = "panel"
    /\ panelIdx[c] <= Len(Panels)
    /\ ~CacheHit(c)
    /\ calculatedValues' = [calculatedValues EXCEPT ![c] = EmptyObj]
    /\ relevantQueries' = [relevantQueries EXCEPT ![c] = RelevantOf(CurrentPanel(c))]
    /\ queryEntries' = [queryEntries EXCEPT ![c] = RelevantOf(CurrentPanel(c))]
    /\ pendingMetrics' = [pendingMetrics EXCEPT ![c] = CurrentPanel(c).metrics]
    /\ results' = [results EXCEPT ![c] = <<>>]
    /\ yieldLog' = [yieldLog EXCEPT ![c] = <<>>]
    /\ settleLog' = [settleLog EXCEPT ![c] = <<>>]
    /\ pc' = [pc EXCEPT ![c] = "queries"]
    /\ UNCHANGED << config, pulls, toYield, answered, useStream, panelIdx, panelCache,
                    batch, batchResults, i, panelResults,
                    queryLog, evalLog, resolvedInSweep, idleSweeps >>

\* relevantQueries is computed, processQueries and processCalculations are
\* created and processCalculations starts draining the query stream
PanelStart(c) ==
    /\ pc[c] = "panel"
    /\ panelIdx[c] <= Len(Panels)
    /\ ~CacheHit(c)
    /\ relevantQueries' = [relevantQueries EXCEPT ![c] = RelevantOf(CurrentPanel(c))]
    /\ queryEntries' = [queryEntries EXCEPT ![c] = RelevantOf(CurrentPanel(c))]
    /\ pendingMetrics' = [pendingMetrics EXCEPT ![c] = CurrentPanel(c).metrics]
    /\ results' = [results EXCEPT ![c] = <<>>]
    /\ yieldLog' = [yieldLog EXCEPT ![c] = <<>>]
    /\ settleLog' = [settleLog EXCEPT ![c] = <<>>]
    /\ pc' = [pc EXCEPT ![c] = "queries"]
    /\ UNCHANGED << config, pulls, toYield, answered, useStream, panelIdx, panelCache,
                    calculatedValues, batch, batchResults, i, panelResults,
                    queryLog, evalLog, resolvedInSweep, idleSweeps >>

(* ------------------------------ processQueries ------------------------- *)
\* a batch one entry too long
TakeBatchOver(entries, n) == SpliceHead(entries, n + 1)

\* splice(0, 1): one query at a time whatever the ceiling
TakeBatchOne(entries, n) == SpliceHead(entries, 1)

\* queryEntries.splice(0, this.maxConcurrentQueries)
TakeBatch(entries, n) == SpliceHead(entries, n)

\* one turn of while (queryEntries.length > 0): the batch is cut off and
\* executeQuery is called for each of its entries
StartBatch(c) ==
    /\ pc[c] = "queries"
    /\ Len(queryEntries[c]) > 0
    /\ LET b == TakeBatch(queryEntries[c], maxConcurrentQueries) IN
        /\ batch' = [batch EXCEPT ![c] = b]
        /\ queryEntries' = [queryEntries EXCEPT ![c] = SubSeq(@, Len(b) + 1, Len(@))]
        /\ batchResults' = [batchResults EXCEPT ![c] = [q \in Range(b) |-> Pending]]
        /\ queryLog' = [queryLog EXCEPT
                          ![c] = @ \o [k \in 1..Len(b) |->
                                          << panelIdx[c], b[k],
                                             Len(relevantQueries[c]) - Len(queryEntries[c]) >>]]
    /\ pc' = [pc EXCEPT ![c] = "settling"]
    /\ UNCHANGED << config, pulls, toYield, answered, useStream, panelIdx, panelCache,
                    calculatedValues, relevantQueries, pendingMetrics, i,
                    results, panelResults, yieldLog, evalLog, resolvedInSweep,
                    idleSweeps, settleLog >>

\* what executeQuery may answer for query q
Answers(q) ==
    IF deterministic /\ answered[q] # Unset THEN {answered[q]} ELSE Outcomes

\* the promise of one query of the batch settles
QuerySettles(c, q) ==
    /\ pc[c] = "settling"
    /\ q \in DOMAIN batchResults[c]
    /\ batchResults[c][q] = Pending
    /\ \E o \in Answers(q) :
        /\ batchResults' = [batchResults EXCEPT ![c][q] = o]
        /\ answered' = [answered EXCEPT ![q] = IF deterministic THEN o ELSE @]
        /\ settleLog' = [settleLog EXCEPT ![c] = Append(@, [id |-> q, outcome |-> o])]
    /\ UNCHANGED << config, pulls, toYield, useStream, pc, panelIdx, panelCache,
                    calculatedValues, relevantQueries, queryEntries, batch,
                    pendingMetrics, i, results, panelResults, queryLog,
                    yieldLog, evalLog, resolvedInSweep, idleSweeps >>

\* Promise.race: the first settlement is enough
AnySettled(res) == \E q \in DOMAIN res : res[q] # Pending

\* await Promise.allSettled(...): every promise of the batch has settled
AllSettled(res) == \A q \in DOMAIN res : res[q] # Pending

\* Promise.allSettled resolves: the for..of over batchResults is entered, the
\* rejected results are logged and the fulfilled ones are to be yielded in the
\* order of batchResults
BatchSettled(c) ==
    /\ pc[c] = "settling"
    /\ AllSettled(batchResults[c])
    /\ LET out == FulfilledOf(batch[c], batchResults[c]) IN
        /\ toYield' = [toYield EXCEPT ![c] = out]
        /\ pc' = [pc EXCEPT ![c] = IF out = <<>> THEN "queries" ELSE "yieldQuery"]
    /\ batch' = [batch EXCEPT ![c] = <<>>]
    /\ batchResults' = [batchResults EXCEPT ![c] = EmptyObj]
    /\ UNCHANGED << config, pulls, answered, useStream, panelIdx, panelCache,
                    calculatedValues, relevantQueries, queryEntries,
                    pendingMetrics, i, results, panelResults, queryLog, yieldLog,
                    evalLog, resolvedInSweep, idleSweeps, settleLog >>

\* yield result.value: one fulfilled result reaches the for await of
\* processCalculations, which writes it into calculatedValues and asks for the
\* next one
QueryYielded(c) ==
    /\ pc[c] = "yieldQuery"
    /\ calculatedValues' = [calculatedValues EXCEPT ![c] = Store(@, << Head(toYield[c]) >>)]
    /\ yieldLog' = [yieldLog EXCEPT ![c] = Append(@, Head(toYield[c]))]
    /\ toYield' = [toYield EXCEPT ![c] = Tail(@)]
    /\ pc' = [pc EXCEPT ![c] = IF Tail(toYield[c]) = <<>> THEN "queries" ELSE "yieldQuery"]
    /\ UNCHANGED << config, pulls, answered, useStream, panelIdx, panelCache,
                    relevantQueries, queryEntries, batch, batchResults,
                    pendingMetrics, i, results, panelResults, queryLog, evalLog,
                    resolvedInSweep, idleSweeps, settleLog >>

\* a resolver that starts sweeping between two batches
QueriesEndEarly(c) ==
    /\ pc[c] = "queries"
    /\ pc' = [pc EXCEPT ![c] = "while"]
    /\ settleLog' = [settleLog EXCEPT ![c] = <<>>]
    /\ UNCHANGED << config, pulls, toYield, answered, useStream, panelIdx, panelCache,
                    calculatedValues, relevantQueries, queryEntries, batch,
                    batchResults, pendingMetrics, i, results, panelResults,
                    queryLog, yieldLog, evalLog, resolvedInSweep, idleSweeps >>

\* queryEntries is empty: the query stream ends and the resolver reaches its
\* while loop
QueriesEnd(c) ==
    /\ pc[c] = "queries"
    /\ Len(queryEntries[c]) = 0
    /\ pc' = [pc EXCEPT ![c] = "while"]
    /\ settleLog' = [settleLog EXCEPT ![c] = <<>>]
    /\ UNCHANGED << config, pulls, toYield, answered, useStream, panelIdx, panelCache,
                    calculatedValues, relevantQueries, queryEntries, batch,
                    batchResults, pendingMetrics, i, results, panelResults,
                    queryLog, yieldLog, evalLog, resolvedInSweep, idleSweeps >>

(* ---------------------------- processCalculations ---------------------- *)
\* a sweep that starts one position too low and never looks at the last metric
SweepFromShort(pending) == Len(pending) - 1

\* let i = pendingMetrics.length - 1, as a 1-based position
SweepFrom(pending) == Len(pending)

\* while (pendingMetrics.length > 0) holds: a sweep starts at the last metric
SweepStart(c) ==
    /\ pc[c] = "while"
    /\ Len(pendingMetrics[c]) > 0
    /\ i' = [i EXCEPT ![c] = SweepFrom(pendingMetrics[c])]
    /\ resolvedInSweep' = [resolvedInSweep EXCEPT ![c] = 0]
    /\ pc' = [pc EXCEPT ![c] = "for"]
    /\ UNCHANGED << config, pulls, toYield, answered, useStream, panelIdx, panelCache,
                    calculatedValues, relevantQueries, queryEntries, batch,
                    batchResults, pendingMetrics, results, panelResults,
                    queryLog, yieldLog, evalLog, idleSweeps, settleLog >>

\* the metric at i is not eligible: the sweep moves on
SweepSkip(c) ==
    /\ pc[c] = "for"
    /\ i[c] >= 1
    /\ ~HasOwnThrows(pendingMetrics[c][i[c]], calculatedValues[c])
    /\ ~Eligible(pendingMetrics[c][i[c]], calculatedValues[c])
    /\ i' = [i EXCEPT ![c] = @ - 1]
    /\ UNCHANGED << config, pulls, toYield, answered, useStream, pc, panelIdx, panelCache,
                    calculatedValues, relevantQueries, queryEntries, batch,
                    batchResults, pendingMetrics, results, panelResults,
                    queryLog, yieldLog, evalLog, resolvedInSweep, idleSweeps, settleLog >>

\* the metric at i is eligible: it is evaluated and stored, and the generator
\* stops at its yield
SweepResolve(c) ==
    /\ pc[c] = "for"
    /\ i[c] >= 1
    /\ LET m == pendingMetrics[c][i[c]] IN
        /\ ~HasOwnThrows(m, calculatedValues[c])
        /\ Eligible(m, calculatedValues[c])
        /\ ~EvaluateThrows(m.expression, calculatedValues[c])
        /\ LET v == evaluateExpression(m.expression, calculatedValues[c]) IN
            calculatedValues' = [calculatedValues EXCEPT ![c] = Put(@, m.id, v)]
        /\ evalLog' = [evalLog EXCEPT
                         ![c] = Append(@, [panel |-> panelIdx[c], id |-> m.id,
                                           scope |-> DOMAIN calculatedValues[c]])]
    /\ pc' = [pc EXCEPT ![c] = "yieldMetric"]
    /\ UNCHANGED << config, pulls, toYield, answered, useStream, panelIdx, panelCache,
                    relevantQueries, queryEntries, batch, batchResults,
                    pendingMetrics, i, results, resolvedInSweep,
                    panelResults, queryLog, yieldLog, idleSweeps, settleLog >>

\* yield { id, value: calculatedValues[id] }: the for await of
\* processPanelResults pushes the entry and resumes the resolver, which removes
\* the metric from pendingMetrics and goes on with the sweep
MetricYielded(c) ==
    /\ pc[c] = "yieldMetric"
    /\ LET m == pendingMetrics[c][i[c]] IN
        results' = [results EXCEPT
                      ![c] = Append(@, [id |-> m.id, value |-> Get(calculatedValues[c], m.id)])]
    /\ pendingMetrics' = [pendingMetrics EXCEPT ![c] = RemoveAt(@, i[c])]
    /\ resolvedInSweep' = [resolvedInSweep EXCEPT ![c] = @ + 1]
    /\ i' = [i EXCEPT ![c] = @ - 1]
    /\ pc' = [pc EXCEPT ![c] = "for"]
    /\ UNCHANGED << config, pulls, toYield, answered, useStream, panelIdx, panelCache,
                    calculatedValues, relevantQueries, queryEntries, batch,
                    batchResults, panelResults, queryLog, yieldLog, evalLog,
                    idleSweeps, settleLog >>

\* a catch around the evaluation that drops the metric and goes on sweeping
SweepThrowsSkipped(c) ==
    /\ pc[c] = "for"
    /\ i[c] >= 1
    /\ LET m == pendingMetrics[c][i[c]] IN
        /\ Eligible(m, calculatedValues[c])
        /\ EvaluateThrows(m.expression, calculatedValues[c])
        /\ evalLog' = [evalLog EXCEPT
                         ![c] = Append(@, [panel |-> panelIdx[c], id |-> m.id,
                                           scope |-> DOMAIN calculatedValues[c]])]
    /\ pendingMetrics' = [pendingMetrics EXCEPT ![c] = RemoveAt(@, i[c])]
    /\ resolvedInSweep' = [resolvedInSweep EXCEPT ![c] = @ + 1]
    /\ i' = [i EXCEPT ![c] = @ - 1]
    /\ UNCHANGED << config, pulls, toYield, answered, useStream, pc, panelIdx, panelCache,
                    calculatedValues, relevantQueries, queryEntries, batch,
                    batchResults, results, panelResults, queryLog, yieldLog,
                    idleSweeps, settleLog >>

\* the evaluator throws on the eligible metric at i, or the eligibility test
\* itself throws: the error leaves every generator and rejects the call
\* (streaming: the pending pull)
SweepThrows(c) ==
    /\ pc[c] = "for"
    /\ i[c] >= 1
    /\ LET m == pendingMetrics[c][i[c]] IN
        IF HasOwnThrows(m, calculatedValues[c])
        THEN evalLog' = evalLog
        ELSE /\ Eligible(m, calculatedValues[c])
             /\ EvaluateThrows(m.expression, calculatedValues[c])
             /\ evalLog' = [evalLog EXCEPT
                              ![c] = Append(@, [panel |-> panelIdx[c], id |-> m.id,
                                                scope |-> DOMAIN calculatedValues[c]])]
    /\ pc' = [pc EXCEPT ![c] = "error"]
    /\ UNCHANGED << config, pulls, toYield, answered, useStream, panelIdx, panelCache,
                    calculatedValues, relevantQueries, queryEntries, batch,
                    batchResults, pendingMetrics, i, results, panelResults,
                    queryLog, yieldLog, resolvedInSweep, idleSweeps, settleLog >>

\* a resolver that makes one sweep only and gives up what is still pending
SweepEndOnce(c) ==
    /\ pc[c] = "for"
    /\ i[c] < 1
    /\ pendingMetrics' = [pendingMetrics EXCEPT ![c] = <<>>]
    /\ pc' = [pc EXCEPT ![c] = "while"]
    /\ UNCHANGED << config, pulls, toYield, answered, useStream, panelIdx, panelCache,
                    calculatedValues, relevantQueries, queryEntries, batch,
                    batchResults, i, results, panelResults, queryLog, yieldLog,
                    evalLog, resolvedInSweep, idleSweeps, settleLog >>

\* the for loop of the sweep is over: back to the while condition
SweepEnd(c) ==
    /\ pc[c] = "for"
    /\ i[c] < 1
    /\ idleSweeps' = [idleSweeps EXCEPT
                        ![c] = @ \/ (resolvedInSweep[c] = 0 /\ Len(pendingMetrics[c]) > 0)]
    /\ pc' = [pc EXCEPT ![c] = "while"]
    /\ UNCHANGED << config, pulls, toYield, answered, useStream, panelIdx, panelCache,
                    calculatedValues, relevantQueries, queryEntries, batch,
                    batchResults, pendingMetrics, i, results, panelResults,
                    queryLog, yieldLog, evalLog, resolvedInSweep, settleLog >>

\* const panelResult = { panel: panel.title, results }
PanelResultOf(c) == [panel |-> CurrentPanel(c).title, results |-> results[c]]

\* pendingMetrics is empty: processCalculations ends, the panel result is
\* cached under its title and the generator stops at its yield
PanelYield(c) ==
    /\ pc[c] = "while"
    /\ Len(pendingMetrics[c]) = 0
    /\ panelCache' = [panelCache EXCEPT ![c] = Put(@, CurrentPanel(c).title, PanelResultOf(c))]
    /\ pc' = [pc EXCEPT ![c] = "yieldPanel"]
    /\ UNCHANGED << config, pulls, toYield, answered, useStream, panelIdx,
                    calculatedValues, relevantQueries, queryEntries, batch,
                    batchResults, pendingMetrics, i, results, panelResults,
                    queryLog, yieldLog, evalLog, resolvedInSweep, idleSweeps,
                    settleLog >>

\* yield panelResult: the element reaches the caller; the aggregate loop pushes
\* it and resumes the generator, the streaming consumer holds it and the
\* generator stays at the yield
PanelYielded(c) ==
    /\ pc[c] = "yieldPanel"
    /\ panelResults' = [panelResults EXCEPT ![c] = Deliver(c, PanelResultOf(c))]
    /\ panelIdx' = [panelIdx EXCEPT ![c] = AfterYieldIdx(c)]
    /\ pc' = [pc EXCEPT ![c] = AfterYield(c)]
    /\ UNCHANGED << config, pulls, toYield, answered, useStream, panelCache,
                    calculatedValues, relevantQueries, queryEntries, batch,
                    batchResults, pendingMetrics, i, results, queryLog, yieldLog,
                    evalLog, resolvedInSweep, idleSweeps, settleLog >>

Next ==
    \E c \in Calls :
        \/ \E stream \in BOOLEAN : ExecuteDashboard(c, stream)
        \/ Pull(c)
        \/ PanelsEnd(c)
        \/ PanelCached(c)
        \/ PanelStart(c)
        \/ StartBatch(c)
        \/ \E q \in DOMAIN Queries : QuerySettles(c, q)
        \/ BatchSettled(c)
        \/ QueryYielded(c)
        \/ QueriesEnd(c)
        \/ SweepStart(c)
        \/ SweepSkip(c)
        \/ SweepResolve(c)
        \/ MetricYielded(c)
        \/ SweepThrows(c)
        \/ SweepEnd(c)
        \/ PanelYield(c)
        \/ PanelYielded(c)

Spec == Init /\ [][Next]_vars

(* ------------------- concurrent calls on one instance ------------------ *)
\* A call whose sweep ended without resolving a metric repeats that sweep
\* without ever awaiting: it keeps the event loop, and no other call of the
\* process takes a step from then on.
Spinning(c) == idleSweeps[c]

\* the event loop can resume call c
Resumable(c) == \A d \in Calls \ {c} : ~Spinning(d)

\* the panel of the pool whose first metric is id
PoolPanel(id) == CHOOSE p \in PanelPool : p.metrics[1].id = id

\* The dashboards run concurrently: P then S (two panels sharing query a),
\* P then P/e (a repeated title), S then P/e (the evaluator throws on e).
ConcurrentDashboards ==
    { [queries |-> Queries, panels |-> ps] :
        ps \in { << PoolPanel("sum"), PoolPanel("s") >>,
                 << PoolPanel("sum"), PoolPanel("e") >>,
                 << PoolPanel("s"), PoolPanel("e") >> } }

\* Two executeDashboard calls are made on the same instance, over the same
\* dashboard, against a deterministic executeQuery and with a ceiling of at
\* least one; neither waits for the other.
InitConcurrent ==
    /\ Init
    /\ dashboard \in ConcurrentDashboards
    /\ deterministic
    /\ maxConcurrentQueries >= 1

NextConcurrent ==
    \E c \in Calls :
        \/ \E stream \in BOOLEAN : Resumable(c) /\ Invoke(c, stream)
        \/ Resumable(c) /\ Pull(c)
        \/ Resumable(c) /\ PanelsEnd(c)
        \/ Resumable(c) /\ PanelCached(c)
        \/ Resumable(c) /\ PanelStart(c)
        \/ Resumable(c) /\ StartBatch(c)
        \/ \E q \in DOMAIN Queries : Resumable(c) /\ QuerySettles(c, q)
        \/ Resumable(c) /\ BatchSettled(c)
        \/ Resumable(c) /\ QueryYielded(c)
        \/ Resumable(c) /\ QueriesEnd(c)
        \/ Resumable(c) /\ SweepStart(c)
        \/ Resumable(c) /\ SweepSkip(c)
        \/ Resumable(c) /\ SweepResolve(c)
        \/ Resumable(c) /\ MetricYielded(c)
        \/ Resumable(c) /\ SweepThrows(c)
        \/ Resumable(c) /\ SweepEnd(c)
        \/ Resumable(c) /\ PanelYield(c)
        \/ Resumable(c) /\ PanelYielded(c)

SpecConcurrent == InitConcurrent /\ [][NextConcurrent]_vars

(* ============================ QuickDashParser ========================== *)
\* Strings are sequences of characters. \w of the regular expression:
WordChars ==
    Range(Chars("abcdefghijklmnopqrstuvwxyz")) \cup
    Range(Chars("ABCDEFGHIJKLMNOPQRSTUVWXYZ")) \cup DigitChars \cup {"_"}

\* Values of the Variables mapping: a number, a string, or undefined
Num(n) == [type |-> "number", n |-> n, s |-> <<>>]
Str(s) == [type |-> "string", n |-> 0, s |-> s]

\* the value variables[key] finds on Object.prototype: a function named s
\* (constructor is the function Object), for __proto__ the prototype itself
Func(s) == [type |-> "function", n |-> 0, s |-> s]
Proto == [type |-> "object", n |-> 0, s |-> <<>>]

\* the names of ObjectPrototype as character sequences
ObjectPrototypeNames == { Chars(name) : name \in ObjectPrototype }

\* key in variables: own keys and inherited names
In(key, variables) == key \in DOMAIN variables \/ key \in ObjectPrototypeNames

\* what variables[key] finds on Object.prototype
InheritedValues ==
    [key \in ObjectPrototypeNames |->
        IF key = Chars("__proto__") THEN Proto
        ELSE IF key = Chars("constructor") THEN Func(Chars("Object"))
        ELSE Func(key)]

\* variables[key]
Lookup(variables, key) ==
    IF key \in DOMAIN variables THEN variables[key]
    ELSE IF key \in ObjectPrototypeNames THEN InheritedValues[key]
    ELSE Undefined

\* the decimal text of a natural number
RECURSIVE DigitsOf(_)
DigitsOf(n) ==
    IF n < 10 THEN << Digits[n + 1] >>
    ELSE DigitsOf(n \div 10) \o << Digits[(n % 10) + 1] >>

\* String(value)
StringOf(value) ==
    IF value.type = "number"
    THEN (IF value.n < 0 THEN << "-" >> \o DigitsOf(0 - value.n) ELSE DigitsOf(value.n))
    ELSE IF value.type = "string" THEN value.s
    ELSE IF value.type = "function"
    THEN Chars("function ") \o value.s \o Chars("() { [native code] }")
    ELSE IF value.type = "object" THEN Chars("[object Object]")
    ELSE Chars("undefined")

\* the text {{name}}
Token(name) == << "{", "{" >> \o name \o << "}", "}" >>

\* the length of the longest run of \w characters of s that starts at p
RECURSIVE WordRun(_, _)
WordRun(s, p) ==
    IF p > Len(s) \/ s[p] \notin WordChars THEN 0 ELSE 1 + WordRun(s, p + 1)

\* /\{(\w+)\}/: single braces make a token too
MatchAtSingle(s, p) ==
    LET n == WordRun(s, p + 1) IN
    IF p + 1 + n <= Len(s) /\ n >= 1 /\ s[p] = "{" /\ s[p + 1 + n] = "}"
    THEN n ELSE 0

\* /\{\{(\w+)\}\}/ matches at p: the length of the captured name, 0 for no match
MatchAt(s, p) ==
    LET n == WordRun(s, p + 2) IN
    IF /\ p + 3 + n <= Len(s)
       /\ n >= 1
       /\ s[p] = "{" /\ s[p + 1] = "{"
       /\ s[p + 2 + n] = "}" /\ s[p + 3 + n] = "}"
    THEN n ELSE 0

\* !variables[key]: zero and the empty string count as missing too
IsFalsy(variables, key) ==
    Lookup(variables, key) \in { Undefined, Num(0), Str(<<>>) }

\* variables[key] === undefined
IsUndefined(variables, key) == Lookup(variables, key) = Undefined

\* what a replaceVariables call gives: the new text
Replaced(text) == [thrown |-> FALSE, text |-> text, key |-> <<>>]
\* a throw that is swallowed: the call returns the empty string
ThrownSwallowed(key) == [thrown |-> FALSE, text |-> <<>>, key |-> <<>>]

\* throw new Error(`Missing required variable: ${key}`)
Thrown(key) == [thrown |-> TRUE, text |-> <<>>, key |-> key]

\* template.replace(/\{\{(\w+)\}\}/g, ...) from position p on: matches are
\* taken left to right and the replacement text is not scanned again
RECURSIVE ReplaceFrom(_, _, _, _)
ReplaceFrom(s, p, variables, acc) ==
    IF p > Len(s) THEN Replaced(acc)
    ELSE LET n == MatchAt(s, p) IN
         IF n = 0 THEN ReplaceFrom(s, p + 1, variables, Append(acc, s[p]))
         ELSE LET key == SubSeq(s, p + 2, p + 1 + n) IN
              IF IsUndefined(variables, key) THEN Thrown(key)
              ELSE ReplaceFrom(s, p + 4 + n, variables,
                               acc \o StringOf(Lookup(variables, key)))

\* replaceVariables(template, variables)
replaceVariables(template, variables) == ReplaceFrom(template, 1, variables, <<>>)

\* this.replaceVariables mapped over a list of strings: the texts replaced
\* before the first throw, the key thrown on, and the calls made
RECURSIVE MapReplace(_, _, _)
MapReplace(strings, variables, done) ==
    IF strings = <<>>
    THEN [thrown |-> FALSE, key |-> <<>>, texts |-> done, calls |-> Len(done)]
    ELSE LET r == replaceVariables(Head(strings), variables) IN
         IF r.thrown
         THEN [thrown |-> TRUE, key |-> r.key, texts |-> done, calls |-> Len(done) + 1]
         ELSE MapReplace(Tail(strings), variables, Append(done, r.text))

\* template.variables is optional
NoVariables == [declared |-> FALSE, names |-> <<>>]
Declared(names) == [declared |-> TRUE, names |-> names]

\* the results of exec: { success: true, data } or { success: false, error }
NoData == [queries |-> <<>>, panels |-> <<>>, variables |-> NoVariables]
NoError == [message |-> "", names |-> <<>>]
NoResult == [keys |-> {}, success |-> FALSE, data |-> NoData, error |-> NoError]
Success(data) ==
    [keys |-> {"success", "data"}, success |-> TRUE, data |-> data, error |-> NoError]
Failure(message, names) ==
    [keys |-> {"success", "error"}, success |-> FALSE, data |-> NoData,
     error |-> [message |-> message, names |-> names]]

\* template.variables.filter((value) => !(value in variables))
RECURSIVE MissingVars(_, _)
MissingVars(names, variables) ==
    IF names = <<>> THEN <<>>
    ELSE (IF ~In(Head(names), variables) THEN << Head(names) >> ELSE <<>>)
         \o MissingVars(Tail(names), variables)

\* Object.entries(queries) of a QueryMap given by its entries in the order
\* they were added
Entries(queries) ==
    LET keys == OwnKeys([k \in DOMAIN queries |-> queries[k].id])
    IN  [k \in DOMAIN keys |-> CHOOSE e \in Range(queries) : e.id = keys[k]]

\* the query strings of a template, in the order of Object.entries
QueryStrings(template) ==
    LET entries == Entries(template.queries)
    IN  [k \in DOMAIN entries |-> entries[k].query]

\* the expressions of the metrics of a panel
Expressions(panel) == [k \in DOMAIN panel.metrics |-> panel.metrics[k].expression]

(* ------------------------- inputs of the parser ------------------------ *)
NameX == << "x" >>
NameY == << "y" >>
\* a name that every object inherits from Object.prototype
NameToString == Chars("toString")

\* query strings and expressions: without a token, with one, with two, with
\* a token inside braces ({{{x}}}), with braces that form no token, and with
\* a token that names an inherited property
Texts ==
    { << "a", "+", "b" >>,
      << "a", "+" >> \o Token(NameX),
      Token(NameX) \o << "+" >> \o Token(NameY),
      Token(NameY),
      << "{" >> \o Token(NameX) \o << "}" >>,
      << "{", "{", "}", "}", "{", "x", "}" >>,
      Token(NameToString) }

\* the values a variable may have: a number, the number zero, a string that
\* reads as a token, or undefined
Values == { Num(7), Num(0), Str(Token(NameY)), Undefined }

\* Variables: name -> value, over any subset of the names
VariableMaps == UNION { [names -> Values] : names \in SUBSET {NameX, NameY} }

Templates ==
    { [queries   |-> << [id |-> "q1", query |-> t1], [id |-> "q2", query |-> t2] >>,
       panels    |-> << [title |-> "P",
                         metrics |-> << [id |-> "m", expression |-> t3,
                                         dependencies |-> << "q1", "q2" >>] >>],
                        [title |-> "Q",
                         metrics |-> << [id |-> "n", expression |-> << "m", "+", "7" >>,
                                         dependencies |-> << "m" >>] >>] >>,
       variables |-> d] :
        t1 \in Texts, t2 \in Texts, t3 \in Texts,
        d \in { NoVariables, Declared(<< NameX >>), Declared(<< NameX, NameY >>),
                Declared(<< NameY, NameX >>), Declared(<< NameToString >>) } }

(* ---------------------------- QuickDashParser.exec --------------------- *)
engine == << dashboard, maxConcurrentQueries, deterministic, answered, useStream,
             pc, panelIdx, panelCache, calculatedValues, relevantQueries,
             queryEntries, batch, batchResults, pendingMetrics, i, results,
             panelResults, queryLog, settleLog, yieldLog, evalLog, resolvedInSweep,
             idleSweeps, pulls, toYield >>

\* QuickDashParser.exec(template, variables) is called
Exec(template, variables) ==
    [pc |-> "exec", template |-> template, variables |-> variables,
     k |-> 1, parsedQueries |-> <<>>, parsedPanels |-> <<>>,
     replaceCalls |-> 0, result |-> NoResult,
     input |-> template, first |-> NoResult]

\* the parser is called on a template while the engine is not in use
InitParser ==
    /\ InitEngine
    /\ dashboard = [queries |-> Queries, panels |-> << PoolPanel("sum") >>]
    /\ maxConcurrentQueries = 1
    /\ deterministic
    /\ \E template \in Templates, variables \in VariableMaps :
         parser = Exec(template, variables)

\* if (template.variables) { missingVars = ...; if (missingVars.length > 0) return ... }
ExecValidate ==
    /\ parser.pc = "exec"
    /\ LET missingVars == IF parser.template.variables.declared
                          THEN MissingVars(parser.template.variables.names,
                                           parser.variables)
                          ELSE <<>> IN
        IF Len(missingVars) > 0
        THEN parser' = [parser EXCEPT
                          !.pc = "returned",
                          !.result = Failure("Missing required variables", missingVars)]
        ELSE parser' = [parser EXCEPT !.pc = "queries"]
    /\ UNCHANGED engine

\* Object.fromEntries(Object.entries(template.queries).map(...)); a throw of
\* replaceVariables is caught by exec and returned as the failure
ParseQueries ==
    /\ parser.pc = "queries"
    /\ LET r == MapReplace(QueryStrings(parser.template), parser.variables, <<>>) IN
        IF r.thrown
        THEN parser' = [parser EXCEPT
                          !.pc = "returned",
                          !.replaceCalls = @ + r.calls,
                          !.result = Failure("Missing required variable", << r.key >>)]
        ELSE parser' = [parser EXCEPT
                          !.pc = "panels",
                          !.replaceCalls = @ + r.calls,
                          !.parsedQueries =
                              LET entries == Entries(parser.template.queries)
                              IN  [k \in DOMAIN entries |->
                                     [id |-> entries[k].id, query |-> r.texts[k]]]]
    /\ UNCHANGED engine

\* one panel of template.panels.map(...): its metrics with their expressions
\* replaced
ParsePanel ==
    /\ parser.pc = "panels"
    /\ parser.k <= Len(parser.template.panels)
    /\ LET panel == parser.template.panels[parser.k]
           r == MapReplace(Expressions(panel), parser.variables, <<>>) IN
        IF r.thrown
        THEN parser' = [parser EXCEPT
                          !.pc = "returned",
                          !.replaceCalls = @ + r.calls,
                          !.result = Failure("Missing required variable", << r.key >>)]
        ELSE parser' = [parser EXCEPT
                          !.k = @ + 1,
                          !.replaceCalls = @ + r.calls,
                          !.parsedPanels = Append(@,
                              [panel EXCEPT
                                 !.metrics = [k \in DOMAIN panel.metrics |->
                                                [panel.metrics[k] EXCEPT
                                                   !.expression = r.texts[k]]]])]
    /\ UNCHANGED engine

\* return { success: true, data: { ...template, queries, panels } }
ExecReturn ==
    /\ parser.pc = "panels"
    /\ parser.k > Len(parser.template.panels)
    /\ parser' = [parser EXCEPT
                    !.pc = "returned",
                    !.result = Success([parser.template EXCEPT
                                          !.queries = parser.parsedQueries,
                                          !.panels = parser.parsedPanels])]
    /\ UNCHANGED engine

\* the caller hands the data of a successful exec to exec once more, with the
\* same variables
ExecAgain ==
    /\ parser.pc = "returned"
    /\ parser.result.success
    /\ parser.first = NoResult
    /\ parser' = [Exec(parser.result.data, parser.variables) EXCEPT
                    !.input = parser.input,
                    !.first = parser.result]
    /\ UNCHANGED engine

NextParser ==
    \/ ExecValidate
    \/ ParseQueries
    \/ ParsePanel
    \/ ExecReturn
    \/ ExecAgain

SpecParser == InitParser /\ [][NextParser]_vars

(* ------------- one panel under every order of its metric list ---------- *)
\* Three metrics in a chain behind three queries: s reads query a, r reads s,
\* t reads r and the queries b and c
ChainMetrics ==
    { Metric("s", <<"a">>, <<"a">>, 1),
      Metric("r", <<"s">>, <<"s", "s">>, 0),
      Metric("t", <<"r", "b", "c">>, <<"r", "b", "c">>, 1) }

\* every order in which the metrics of a set can be listed in panel.metrics
Orderings(S) == { ms \in [1..Cardinality(S) -> S] : Range(ms) = S }

ChainDashboards ==
    { [queries |-> Queries, panels |-> << Panel("S", ms) >>] : ms \in Orderings(ChainMetrics) }

InitChain ==
    /\ dashboard \in ChainDashboards
    /\ InitInstance
    /\ parser = ParserOff

\* the calls of Next on a dashboard of one panel whose metrics are in scope
\* whenever they are eligible: no title repeats and no evaluation throws
NextChain ==
    \E c \in Calls :
        \/ \E stream \in BOOLEAN : ExecuteDashboard(c, stream)
        \/ Pull(c)
        \/ PanelsEnd(c)
        \/ PanelStart(c)
        \/ StartBatch(c)
        \/ \E q \in DOMAIN Queries : QuerySettles(c, q)
        \/ BatchSettled(c)
        \/ QueryYielded(c)
        \/ QueriesEnd(c)
        \/ SweepStart(c)
        \/ SweepSkip(c)
        \/ SweepResolve(c)
        \/ MetricYielded(c)
        \/ SweepEnd(c)
        \/ PanelYield(c)
        \/ PanelYielded(c)

SpecChain == InitChain /\ [][NextChain]_vars

(* ------------- panels of two and of three queries in one call ---------- *)
\* The panel of two queries (P/sum) before and after a panel of three: the
\* chain listed as t, r, s, whose queries come as b, c, a.
BatchDashboards ==
    LET two == PoolPanel("sum")
        three == Panel("S", << Metric("t", <<"r", "b", "c">>, <<"r", "b", "c">>, 1),
                               Metric("r", <<"s">>, <<"s", "s">>, 0),
                               Metric("s", <<"a">>, <<"a">>, 1) >>)
    IN  { [queries |-> Queries, panels |-> ps] : ps \in { << two, three >>, << three, two >> } }

InitBatches ==
    /\ dashboard \in BatchDashboards
    /\ InitInstance
    /\ parser = ParserOff

SpecBatches == InitBatches /\ [][NextChain]_vars

(* ------------- panels titled with a name every object inherits --------- *)
\* titles that name a property of Object.prototype
InheritedTitles == {"constructor", "toString"}

Retitled(panel, title) == [panel EXCEPT !.title = title]

\* each panel of the pool alone under such a title, and after the panel P/sum
TitledDashboards ==
    { [queries |-> Queries, panels |-> ps] :
        ps \in { << Retitled(p, t) >> : p \in PanelPool, t \in InheritedTitles } \cup
               { << PoolPanel("sum"), Retitled(p, "constructor") >> : p \in PanelPool } }

InitTitles ==
    /\ dashboard \in TitledDashboards
    /\ InitInstance
    /\ parser = ParserOff

SpecTitles == InitTitles /\ [][Next]_vars

(* ======================= properties of the engine ====================== *)
\* section 3 of the data model: panel titles are unique across a dashboard
UniqueTitles ==
    \A j, k \in DOMAIN Panels : j # k => Panels[j].title # Panels[k].title

MetricIds(metrics) == { metrics[k].id : k \in DOMAIN metrics }
MetricOf(metrics, id) == CHOOSE m \in Range(metrics) : m.id = id
Occurrences(entries, id) == Len(SelectSeq(entries, LAMBDA e : e.id = id))
Ids(entries) == { entries[k].id : k \in DOMAIN entries }

\* executeQuery calls that were started and have not settled
InFlight(c) ==
    Cardinality({ q \in DOMAIN batchResults[c] : batchResults[c][q] = Pending })

\* C1: with a ceiling N >= 1, at every moment of an executeDashboard call at
\* most N executeQuery calls are started and not yet settled.
C1_InFlightAtMostN ==
    maxConcurrentQueries >= 1 =>
        \A c \in Calls : InFlight(c) <= maxConcurrentQueries

\* a full batch is in flight while further entries wait for the next batch
C1_Witness ==
    \E c \in Calls :
        /\ maxConcurrentQueries >= 1
        /\ InFlight(c) = maxConcurrentQueries
        /\ Len(queryEntries[c]) > 0

\* C2: when the pending metrics of a panel can never become eligible (cycle,
\* unknown dependency, dependency on a failed query), the resolution ends with
\* an error: a call in which a sweep resolved nothing while metrics were
\* pending has failed.
C2_StuckResolutionFails ==
    maxConcurrentQueries >= 1 =>
        \A c \in Calls : idleSweeps[c] => pc[c] = "error"

\* the dependency relation among the metrics of one panel
DependsOn(metrics) ==
    { pr \in MetricIds(metrics) \X MetricIds(metrics) :
        pr[2] \in Range(MetricOf(metrics, pr[1]).dependencies) }

RECURSIVE Closure(_, _)
Closure(R, n) ==
    IF n = 0 THEN R
    ELSE LET S == Closure(R, n - 1) IN
         S \cup { pr \in { << x[1], y[2] >> : x \in S, y \in S } :
                    \E x \in S, y \in S : x[2] = y[1] /\ pr = << x[1], y[2] >> }

Acyclic(metrics) ==
    \A id \in MetricIds(metrics) :
        << id, id >> \notin Closure(DependsOn(metrics), Len(metrics))

\* the metric identifiers of the panels up to position k
MetricIdsUpTo(k) == UNION { MetricIds(Panels[j].metrics) : j \in 1..k }

\* the queries whose execution for the panel in progress was fulfilled
FulfilledIds(c) == Ids(yieldLog[c])

\* the panel call c is resolving has no dependency cycle and each of its
\* dependencies names a query that was executed successfully for it or a
\* metric of the same or an earlier panel
Resolvable(c) ==
    /\ \A m \in Range(CurrentPanel(c).metrics) :
         \A d \in Range(m.dependencies) :
            d \in FulfilledIds(c) \/ d \in MetricIdsUpTo(panelIdx[c])
    /\ Acyclic(CurrentPanel(c).metrics)

\* C3: on a dashboard with unique titles, a panel without dependency cycle
\* whose dependencies all name a successfully executed query or a metric of
\* the same or an earlier panel is resolved without a sweep that makes no
\* progress, and every panel result contains each metric of its panel exactly
\* once.
C3_AcyclicPanelResolves ==
    UniqueTitles =>
        \A c \in Calls :
            /\ (pc[c] \in {"while", "for"} /\ idleSweeps[c]) => ~Resolvable(c)
            /\ \A k \in DOMAIN panelResults[c] :
                 \A m \in Range(Panels[k].metrics) :
                    Occurrences(panelResults[c][k].results, m.id) = 1

\* a panel whose second metric depends on its first one (two sweeps) has been
\* resolved after the result of an earlier panel
C3_Witness ==
    \E c \in Calls :
        /\ UniqueTitles
        /\ Len(panelResults[c]) = 2
        /\ Len(panelResults[c][2].results) = 2
        /\ ~idleSweeps[c]

\* C4: every metric value an ended call reports equals the value of the
\* metric's expression under the bindings the call ends with.
C4_ValuesMatchFinalBindings ==
    (UniqueTitles /\ maxConcurrentQueries >= 1) =>
        \A c \in Calls : pc[c] = "done" =>
            \A k \in DOMAIN panelResults[c] :
                \A n \in DOMAIN panelResults[c][k].results :
                    LET e == panelResults[c][k].results[n]
                        m == MetricOf(Panels[k].metrics, e.id)
                    IN  /\ ~EvaluateThrows(m.expression, calculatedValues[c])
                        /\ e.value = evaluateExpression(m.expression, calculatedValues[c])

\* the newest panel result is the one of the panel whose queries yieldLog
\* describes
Produced(c) ==
    /\ Len(panelResults[c]) >= 1
    /\ \/ pc[c] = "suspended" /\ panelIdx[c] = Len(panelResults[c])
       \/ pc[c] \in {"panel", "done"} /\ panelIdx[c] = Len(panelResults[c]) + 1

LastResult(c) == panelResults[c][Len(panelResults[c])]

\* C5 as stated: the panel result has an (identifier, value) entry for every
\* query of the panel that was executed successfully, next to the metrics.
C5_QueryEntriesInResult ==
    UniqueTitles =>
        \A c \in Calls : Produced(c) =>
            \A e \in Range(yieldLog[c]) : e \in Range(LastResult(c).results)

\* C5 as amended: a panel result holds one entry per metric of its panel and
\* no entry for a query; for the panel with the single metric sum = a + b and
\* queries a -> 1, b -> 2 the results are exactly sum = 3.
C5_ResultHoldsMetricsOnly ==
    UniqueTitles =>
        \A c \in Calls :
            /\ \A k \in DOMAIN panelResults[c] :
                 /\ Ids(panelResults[c][k].results) = MetricIds(Panels[k].metrics)
                 /\ Ids(panelResults[c][k].results) \cap DOMAIN dashboard.queries = {}
                 /\ Len(panelResults[c][k].results) = Len(Panels[k].metrics)
            /\ ( /\ Produced(c)
                 /\ Len(Panels) = 1
                 /\ MetricIds(Panels[1].metrics) = {"sum"}
                 /\ Range(yieldLog[c]) = { [id |-> "a", value |-> 1], [id |-> "b", value |-> 2] } )
               => LastResult(c).results = << [id |-> "sum", value |-> 3] >>

\* the end-to-end example has run: a -> 1 and b -> 2 were yielded by the
\* batcher and the result of the panel was delivered
C5_Witness ==
    \E c \in Calls :
        /\ Produced(c)
        /\ Len(Panels) = 1
        /\ MetricIds(Panels[1].metrics) = {"sum"}
        /\ Range(yieldLog[c]) = { [id |-> "a", value |-> 1], [id |-> "b", value |-> 2] }
        /\ pc[c] = "done"

\* position of the entry of id in a result list (0 when it has none)
PositionOf(entries, id) ==
    IF id \in Ids(entries) THEN CHOOSE n \in DOMAIN entries : entries[n].id = id ELSE 0

\* C6: a metric is evaluated only while every one of its dependencies is in
\* calculatedValues; on a dashboard with unique titles the entry of a metric
\* in a panel result comes after the entry of each of its dependencies that
\* the same result lists.
C6_DependenciesFirst ==
    \A c \in Calls :
        /\ \A n \in DOMAIN evalLog[c] :
             LET m == MetricOf(Panels[evalLog[c][n].panel].metrics, evalLog[c][n].id)
             IN  Range(m.dependencies) \subseteq evalLog[c][n].scope
        /\ UniqueTitles =>
             \A k \in DOMAIN panelResults[c] :
                LET res == panelResults[c][k].results IN
                \A n \in DOMAIN res :
                    \A d \in Range(MetricOf(Panels[k].metrics, res[n].id).dependencies) :
                        d \in Ids(res) => PositionOf(res, d) < n

\* a delivered result lists a metric after the metric it depends on
C6_Witness ==
    \E c \in Calls :
        /\ UniqueTitles
        /\ \E k \in DOMAIN panelResults[c] :
             LET res == panelResults[c][k].results IN
             /\ Len(res) = 2
             /\ res[1].id \in Range(MetricOf(Panels[k].metrics, res[2].id).dependencies)

\* processQueries of call c has settled its last batch
Drained(c) == pc[c] = "queries" /\ Len(queryEntries[c]) = 0

\* C7: a query whose execution fails is left out of what processQueries
\* yields, every other query handed to it is still executed once and, when
\* fulfilled, yielded with its value; a call only rejects through an
\* evaluation that throws, never through the failure of a query.
C7_FailedQueryOnlyExcluded ==
    \A c \in Calls :
        /\ \A e \in Range(settleLog[c]) :
             e.outcome.status = "rejected" => e.id \notin Ids(yieldLog[c])
        /\ Drained(c) =>
             /\ Ids(settleLog[c]) = Range(relevantQueries[c])
             /\ Len(settleLog[c]) = Len(relevantQueries[c])
             /\ Range(yieldLog[c]) =
                  { [id |-> e.id, value |-> e.outcome.value] :
                      e \in { x \in Range(settleLog[c]) : x.outcome.status = "fulfilled" } }
        /\ pc[c] = "error" =>
             /\ Len(evalLog[c]) > 0
             /\ LET last == evalLog[c][Len(evalLog[c])]
                    m == MetricOf(Panels[last.panel].metrics, last.id)
                IN  ~(Range(m.expression.syms) \subseteq last.scope)

\* a call has completed although the first of the two batches of its last
\* panel failed: the query of the second batch was executed and yielded
C7_Witness ==
    \E c \in Calls :
        /\ pc[c] = "done"
        /\ maxConcurrentQueries = 1
        /\ Len(relevantQueries[c]) = 2
        /\ Cardinality({ n \in DOMAIN queryLog[c] : queryLog[c][n][1] = Len(Panels) }) = 2
        /\ Ids(yieldLog[c]) = { relevantQueries[c][2] }

\* C8: on a dashboard with unique titles and with a deterministic
\* executeQuery, the streaming call and the aggregate call end the same way
\* and deliver the same list of panel results.
C8_StreamEqualsAggregate ==
    (Ended(2) /\ Ended(1) /\ deterministic /\ UniqueTitles) =>
        /\ useStream[1] # useStream[2]
        /\ pc[1] = pc[2]
        /\ panelResults[1] = panelResults[2]

\* the first panel that carries the title of panel k
FirstTitled(k) ==
    CHOOSE j \in 1..k :
        /\ Panels[j].title = Panels[k].title
        /\ \A h \in 1..(j - 1) : Panels[h].title # Panels[k].title

\* C9: in a streaming call, a panel whose title was already produced is
\* answered with the very result produced the first time, and neither a query
\* is executed nor a metric evaluated for it (no panel repeats a title when
\* the titles are unique).
C9_RepeatedTitleFromCache ==
    UniqueTitles \/
    \A c \in Calls : useStream[c] =>
        \A k \in DOMAIN Panels : FirstTitled(k) # k =>
            /\ \A n \in DOMAIN queryLog[c] : queryLog[c][n][1] # k
            /\ \A n \in DOMAIN evalLog[c] : evalLog[c][n].panel # k
            /\ k \in DOMAIN panelResults[c] =>
                 panelResults[c][k] = panelResults[c][FirstTitled(k)]

\* a streaming call has delivered a second panel that repeats the title of
\* the first one but declares other metrics
C9_Witness ==
    \E c \in Calls :
        /\ useStream[c]
        /\ Len(panelResults[c]) = 2
        /\ Panels[1].title = Panels[2].title
        /\ Panels[1].metrics # Panels[2].metrics

\* processQueries has been created for the panel and has not run yet
FreshPanel(c) ==
    /\ pc[c] = "queries"
    /\ settleLog[c] = <<>>
    /\ yieldLog[c] = <<>>
    /\ batch[c] = <<>>
    /\ queryEntries[c] = relevantQueries[c]

DependenciesOf(metrics) == UNION { Range(m.dependencies) : m \in Range(metrics) }

\* C10: the queries handed to processQueries for a panel are exactly the
\* QueryMap identifiers among the dependencies of the panel's metrics that
\* are not yet in calculatedValues, and no other query is executed for it.
C10_OnlyAbsentQueries ==
    (UniqueTitles /\ maxConcurrentQueries >= 1) =>
        \A c \in Calls :
            /\ FreshPanel(c) =>
                 Range(relevantQueries[c]) =
                    { d \in DependenciesOf(CurrentPanel(c).metrics) :
                        d \in DOMAIN dashboard.queries /\ d \notin DOMAIN calculatedValues[c] }
            /\ \A n \in DOMAIN queryLog[c] :
                 queryLog[c][n][2] \in DependenciesOf(Panels[queryLog[c][n][1]].metrics)
                                         \cap DOMAIN dashboard.queries

(* --------------------------------- C11 --------------------------------- *)
\* the identifier a step of call c writes into calculatedValues: the
\* fulfilled entry of a settled batch that is yielded, or the metric a sweep
\* resolves
WrittenBy(c) ==
    IF QueryYielded(c) THEN { Head(toYield[c]).id }
    ELSE IF SweepResolve(c) THEN { pendingMetrics[c][i[c]].id }
    ELSE {}

\* C11: within one executeDashboard call no identifier, query or metric, is
\* written to calculatedValues more than once across the panels of the
\* dashboard: every write stores an identifier that is not yet bound.
C11_NoIdentifierWrittenTwice ==
    [][ (UniqueTitles /\ maxConcurrentQueries >= 1) =>
            \A c \in Calls : WrittenBy(c) \cap DOMAIN calculatedValues[c] = {} ]_vars

(* --------------------------------- C12 --------------------------------- *)
\* the title a delivered element carries; an element that is no panel result
\* carries none
TitleOf(element) == IF "panel" \in DOMAIN element THEN element.panel ELSE "undefined"

\* C12: in both modes the k-th panel result delivered carries the title of
\* the k-th declared panel, and a call that has run to its end has delivered
\* exactly one panel result per declared panel.
C12_OneResultPerPanelInOrder ==
    \A c \in Calls :
        /\ Len(panelResults[c]) <= Len(Panels)
        /\ \A k \in DOMAIN panelResults[c] : TitleOf(panelResults[c][k]) = Panels[k].title
        /\ pc[c] = "done" => Len(panelResults[c]) = Len(Panels)

(* --------------------------------- C13 --------------------------------- *)
\* C13: an instance constructed with ceiling N never has more than N
\* executeQuery calls in flight in total, also while several executeDashboard
\* calls on it run concurrently.
C13_TotalInFlightAtMostN ==
    InFlight(1) + InFlight(2) <= maxConcurrentQueries

(* --------------------------------- C14 --------------------------------- *)
\* One executeDashboard call run alone, as a function of the dashboard, of
\* the ceiling and of the answers of executeQuery: the for loop of one sweep,
\* from index idx down to 1, over st = [pending, values, results, status].
\* What is yielded for a metric is calculatedValues[id] read back.
RECURSIVE SweepAlone(_, _)
SweepAlone(st, idx) ==
    IF idx = 0 \/ st.status # "ok" THEN st
    ELSE LET m == st.pending[idx] IN
         IF HasOwnThrows(m, st.values) THEN [st EXCEPT !.status = "error"]
         ELSE IF ~Eligible(m, st.values) THEN SweepAlone(st, idx - 1)
         ELSE IF EvaluateThrows(m.expression, st.values)
              THEN [st EXCEPT !.status = "error"]
              ELSE LET values ==
                           Put(st.values, m.id, evaluateExpression(m.expression, st.values))
                   IN
                   SweepAlone([pending |-> RemoveAt(st.pending, idx),
                               values  |-> values,
                               results |-> Append(st.results,
                                                  [id |-> m.id, value |-> Get(values, m.id)]),
                               status  |-> "ok"], idx - 1)

\* while (pendingMetrics.length > 0): a sweep that resolves nothing is
\* repeated for ever
RECURSIVE ResolveAlone(_)
ResolveAlone(st) ==
    IF st.status # "ok" \/ Len(st.pending) = 0 THEN st
    ELSE LET after == SweepAlone(st, SweepFrom(st.pending)) IN
         IF after.status = "ok" /\ Len(after.pending) = Len(st.pending)
         THEN [after EXCEPT !.status = "spinning"]
         ELSE ResolveAlone(after)

\* the for..of loop of processPanelResults from panel k on; answers[k][q] is
\* what executeQuery answers for query q when it is called for the panel at
\* position k. With queries to execute and a ceiling below one the call
\* never leaves the loop of processQueries.
RECURSIVE PanelsAlone(_, _, _, _, _, _)
PanelsAlone(k, values, cache, delivered, stream, answers) ==
    IF k > Len(Panels) THEN [delivered |-> delivered, status |-> "done"]
    ELSE LET panel == Panels[k] IN
         IF stream /\ Truthy(cache, panel.title)
         THEN PanelsAlone(k + 1, values, cache,
                          Append(delivered, Get(cache, panel.title)), stream, answers)
         ELSE IF RelevantOf(panel) # <<>> /\ maxConcurrentQueries <= 0
         THEN [delivered |-> delivered, status |-> "batching"]
         ELSE LET st == ResolveAlone(
                           [pending |-> panel.metrics,
                            values  |-> Store(values,
                                              FulfilledOf(RelevantOf(panel), answers[k])),
                            results |-> <<>>,
                            status  |-> "ok"])
                  panelResult == [panel |-> panel.title, results |-> st.results]
              IN IF st.status # "ok"
                 THEN [delivered |-> delivered, status |-> st.status]
                 ELSE PanelsAlone(k + 1, st.values, Put(cache, panel.title, panelResult),
                                  Append(delivered, panelResult), stream, answers)

\* what a call in the given mode delivers when no other call runs, and how
\* it ends, given the answers of executeQuery per panel position
DeliveredAlone(stream, answers) ==
    PanelsAlone(1, EmptyObj, EmptyObj, <<>>, stream, answers)

\* a deterministic executeQuery answers a query the same way at every panel
SameAtEveryPanel == [k \in DOMAIN Panels |-> answered]

\* C14: two executeDashboard calls running concurrently on one instance do
\* not touch each other's calculatedValues or panel cache: a call that has
\* ended, or that spins in its resolver, has delivered the panel results it
\* delivers when run alone, and has ended the same way.
C14_ConcurrentCallsDeliverAsAlone ==
    \A c \in Calls :
        /\ Ended(c) =>
              /\ panelResults[c] = DeliveredAlone(useStream[c], SameAtEveryPanel).delivered
              /\ pc[c] = DeliveredAlone(useStream[c], SameAtEveryPanel).status
        /\ Spinning(c) =>
              /\ panelResults[c] = DeliveredAlone(useStream[c], SameAtEveryPanel).delivered
              /\ DeliveredAlone(useStream[c], SameAtEveryPanel).status = "spinning"

\* a streaming call and an aggregate call have run interleaved to their ends
\* over a dashboard that repeats a title: the streaming call delivered the
\* cached result, the aggregate call computed the panel again
C14_Witness ==
    /\ pc[1] = "done" /\ pc[2] = "done"
    /\ useStream[1] # useStream[2]
    /\ Panels[1].title = Panels[2].title
    /\ panelResults[1] # panelResults[2]
    /\ \E k \in DOMAIN queryLog[2] : queryLog[2][k][1] = 1
    /\ \E k \in DOMAIN queryLog[1] : queryLog[1][k][1] = 2

(* ======================= properties of the parser ====================== *)
\* the declared variable names of the template exec was first called on
DeclaredNames ==
    IF parser.input.variables.declared THEN Range(parser.input.variables.names) ELSE {}

\* the declared names that are no key of the Variables mapping
MissingNames == { name \in DeclaredNames : name \notin DOMAIN parser.variables }

\* exec has returned from its first call
Returned == parser.pc = "returned" /\ parser.first = NoResult

\* C15: when a declared variable name is no key of Variables, exec returns a
\* failure whose error lists exactly the missing declared names, and
\* replaceVariables is never called.
C15_MissingDeclaredNamesReported ==
    (parser.pc # "off" /\ MissingNames # {}) =>
        /\ parser.replaceCalls = 0
        /\ parser.pc \in {"exec", "returned"}
        /\ parser.pc = "returned" =>
             /\ ~parser.result.success
             /\ parser.result.keys = {"success", "error"}
             /\ parser.result.error.message = "Missing required variables"
             /\ Range(parser.result.error.names) = MissingNames

(* --------------------------------- C16 --------------------------------- *)
\* s holds a token with a name of n characters at position p
TokenAt(s, p, n) ==
    /\ n >= 1
    /\ p + 3 + n <= Len(s)
    /\ s[p] = "{" /\ s[p + 1] = "{"
    /\ \A j \in (p + 2)..(p + 1 + n) : s[j] \in WordChars
    /\ s[p + 2 + n] = "}" /\ s[p + 3 + n] = "}"

\* the names of the tokens of s
TokenNames(s) ==
    { SubSeq(s, p + 2, p + 1 + n) : << p, n >> \in
        { pn \in (1..Len(s)) \X (1..Len(s)) : TokenAt(s, pn[1], pn[2]) } }

\* the query strings, then the expressions of the first metric of each panel
TextsOf(template) ==
    QueryStrings(template) \o
    [k \in DOMAIN template.panels |-> template.panels[k].metrics[1].expression]

\* the names the strings of the template refer to
ReferencedNames == UNION { TokenNames(t) : t \in Range(TextsOf(parser.input)) }

\* Variables holds the name as a key with a value other than undefined
HasOwnValue(name) ==
    name \in DOMAIN parser.variables /\ parser.variables[name] # Undefined

\* variables[name] is not undefined: the name is a key of Variables with such
\* a value, or it is no key and names a property every object inherits
HasValue(name) ==
    \/ HasOwnValue(name)
    \/ name \notin DOMAIN parser.variables /\ name \in ObjectPrototypeNames

\* the declared names that `name in variables` does not find: no key of
\* Variables and no property every object inherits
NotFound ==
    { name \in DeclaredNames :
        name \notin DOMAIN parser.variables /\ name \notin ObjectPrototypeNames }

\* C16 as stated: whenever the keys of Variables include every declared
\* name, exec succeeds.
C16_SupersetSucceeds ==
    (Returned /\ MissingNames = {}) => parser.result.success

\* C16, amended: when the keys of Variables include every declared name and
\* variables[name] is a value other than undefined for every name a token
\* refers to, exec succeeds and returns the template with each string
\* replaced.
C16_SuppliedAndDefinedSucceeds ==
    ( /\ Returned
      /\ MissingNames = {}
      /\ \A name \in ReferencedNames : HasValue(name) ) =>
        /\ parser.result.success
        /\ parser.result.keys = {"success", "data"}
        /\ parser.result.data.variables = parser.input.variables
        /\ Len(TextsOf(parser.result.data)) = Len(TextsOf(parser.input))
        /\ \A k \in DOMAIN TextsOf(parser.input) :
             /\ ~replaceVariables(TextsOf(parser.input)[k], parser.variables).thrown
             /\ TextsOf(parser.result.data)[k] =
                  replaceVariables(TextsOf(parser.input)[k], parser.variables).text

\* x is declared and is zero, y is not declared and has a value; a + {{x}}
\* has become a + 0 and {{{x}}} has become {0}
C16_Witness ==
    /\ Returned
    /\ parser.input.variables = Declared(<< NameX >>)
    /\ DOMAIN parser.variables = {NameX, NameY}
    /\ parser.variables[NameX] = Num(0)
    /\ parser.input.queries[1].query = << "a", "+" >> \o Token(NameX)
    /\ parser.input.queries[2].query = Token(NameX) \o << "+" >> \o Token(NameY)
    /\ parser.input.panels[1].metrics[1].expression = << "{" >> \o Token(NameX) \o << "}" >>
    /\ parser.result.success
    /\ parser.result.data.queries[1].query = << "a", "+", "0" >>
    /\ parser.result.data.panels[1].metrics[1].expression = << "{", "0", "}" >>

(* --------------------------------- C17 --------------------------------- *)
\* the names tokens refer to that are not declared and that Variables gives
\* no value
UndeclaredUnset ==
    { name \in ReferencedNames : name \notin DeclaredNames /\ ~HasOwnValue(name) }

\* the names tokens refer to that are not declared and for which
\* variables[name] is undefined
UndeclaredUndefined ==
    { name \in ReferencedNames : name \notin DeclaredNames /\ ~HasValue(name) }

\* the places << string, position, length >> of the tokens for which
\* variables[name] is undefined
UnsetAt ==
    { tpn \in UNION { {t} \X (1..Len(TextsOf(parser.input)[t]))
                           \X (1..Len(TextsOf(parser.input)[t])) :
                       t \in DOMAIN TextsOf(parser.input) } :
        /\ TokenAt(TextsOf(parser.input)[tpn[1]], tpn[2], tpn[3])
        /\ ~HasValue(SubSeq(TextsOf(parser.input)[tpn[1]],
                            tpn[2] + 2, tpn[2] + 1 + tpn[3])) }

\* the name of the first token without a value: query strings in the order
\* of the QueryMap, then expressions in panel order, each from left to right
FirstUnset ==
    LET first == CHOOSE a \in UnsetAt :
                    \A b \in UnsetAt : a[1] < b[1] \/ (a[1] = b[1] /\ a[2] <= b[2])
    IN SubSeq(TextsOf(parser.input)[first[1]], first[2] + 2, first[2] + 1 + first[3])

\* C17 as stated, read for calls that pass the check of the declared names:
\* when a string holds a token whose name is not declared and has no value,
\* exec returns a failure without data whose error names that token.
C17_UndeclaredTokenNamed ==
    (Returned /\ MissingNames = {}) =>
        \A name \in UndeclaredUnset :
            /\ ~parser.result.success
            /\ parser.result.keys = {"success", "error"}
            /\ name \in Range(parser.result.error.names)

\* C17, amended: when a string holds a token whose name is not declared and
\* for which variables[name] is undefined, exec returns a failure without
\* data; when `in` finds every declared name, the error names one token, the
\* first one without a value in the order of substitution; otherwise it
\* names the declared names that were not found and no token.
C17_FirstUnsetTokenNamed ==
    (Returned /\ UndeclaredUndefined # {}) =>
        /\ ~parser.result.success
        /\ parser.result.keys = {"success", "error"}
        /\ parser.result.data = NoData
        /\ NotFound = {} =>
             /\ parser.result.error.message = "Missing required variable"
             /\ parser.result.error.names = << FirstUnset >>
        /\ NotFound # {} =>
             /\ parser.result.error.message = "Missing required variables"
             /\ Range(parser.result.error.names) = NotFound

\* x is declared and supplied, y is neither: the first query is replaced, the
\* second throws on y
C17_Witness ==
    /\ Returned
    /\ parser.input.variables = Declared(<< NameX >>)
    /\ DOMAIN parser.variables = {NameX}
    /\ parser.variables[NameX] = Num(7)
    /\ parser.input.queries[1].query = << "a", "+" >> \o Token(NameX)
    /\ parser.input.queries[2].query = Token(NameX) \o << "+" >> \o Token(NameY)
    /\ parser.replaceCalls = 2
    /\ parser.result.error.names = << NameY >>

(* --------------------------------- C18 --------------------------------- *)
\* no query string and no expression of the template holds a token
TokenFree(template) == \A t \in Range(TextsOf(template)) : TokenNames(t) = {}

\* C18: on a template without tokens whose declared names are all supplied,
\* exec succeeds and returns query strings and expressions equal to the
\* input ones, and exec applied to the returned data returns the same again.
C18_TokenFreeUnchanged ==
    (parser.pc = "returned" /\ TokenFree(parser.input) /\ MissingNames = {}) =>
        /\ parser.result.success
        /\ TextsOf(parser.result.data) = TextsOf(parser.input)
        /\ parser.first # NoResult => parser.result = parser.first

\* exec has been applied to its own output; the strings hold braces that
\* form no token, and a declared name is supplied
C18_Witness ==
    /\ parser.pc = "returned"
    /\ parser.first # NoResult
    /\ TokenFree(parser.input)
    /\ parser.input.variables = Declared(<< NameX >>)
    /\ parser.input.queries[1].query = << "{", "{", "}", "}", "{", "x", "}" >>
    /\ parser.result.data.queries[1].query = << "{", "{", "}", "}", "{", "x", "}" >>

(* ======================= properties of the batcher ===================== *)
\* the identifiers processQueries has dispatched for the panel in progress,
\* in the order of the executeQuery calls
Dispatched(c) ==
    LET OfPanel(e) == e[1] = panelIdx[c]
        log == SelectSeq(queryLog[c], OfPanel)
    IN [k \in DOMAIN log |-> log[k][2]]

\* C19: processQueries calls executeQuery for a query of the next batch only
\* when every query it has dispatched before has settled.
C19_NextBatchAfterSettlement ==
    [][ \A c \in Calls :
          Len(queryLog'[c]) > Len(queryLog[c]) =>
              Len(Dispatched(c)) = Len(settleLog[c]) ]_vars

\* a second batch is in flight after the first one has settled
C19_Witness ==
    \E c \in Calls :
        /\ pc[c] = "settling"
        /\ InFlight(c) >= 1
        /\ Len(settleLog[c]) >= 1
        /\ Len(Dispatched(c)) > Len(batch[c])

(* --------------------------------- C20 --------------------------------- *)
\* the smaller of two numbers
Min(a, b) == IF a <= b THEN a ELSE b

\* C20: with a ceiling N >= 1, processQueries cuts the entries it was given,
\* in their order, into consecutive batches of N of which only the last may
\* be smaller, dispatches every query exactly once, and ends when the last
\* batch has settled; with N at least the number of queries there is one
\* batch.
C20_ConsecutiveBatchesOfN ==
    maxConcurrentQueries >= 1 =>
        \A c \in Calls :
            pc[c] \in {"queries", "settling"} =>
                /\ Dispatched(c) \o queryEntries[c] = relevantQueries[c]
                /\ pc[c] = "settling" =>
                     /\ Len(batch[c]) =
                          Min(maxConcurrentQueries, Len(batch[c]) + Len(queryEntries[c]))
                     /\ (Len(Dispatched(c)) - Len(batch[c])) % maxConcurrentQueries = 0
                     /\ batch[c] = SubSeq(Dispatched(c),
                                          Len(Dispatched(c)) - Len(batch[c]) + 1,
                                          Len(Dispatched(c)))
                     /\ maxConcurrentQueries >= Len(relevantQueries[c]) =>
                          batch[c] = relevantQueries[c]
                /\ Drained(c) =>
                     /\ Dispatched(c) = relevantQueries[c]
                     /\ ENABLED QueriesEnd(c)
                     /\ ~ENABLED StartBatch(c)

\* the executeQuery calls logged for the panel at position k, each with the
\* number of calls made for the panel before its batch was cut
DispatchedFor(c, k) == SelectSeq(queryLog[c], LAMBDA e : e[1] = k)

\* under a ceiling of two, the two queries of the first panel went out
\* together in a single batch, and of the three queries of the second panel
\* the second batch holds the one query that is left
C20_Witness ==
    \E c \in Calls :
        /\ maxConcurrentQueries = 2
        /\ panelIdx[c] = 2
        /\ Len(DispatchedFor(c, 1)) = 2
        /\ \A n \in DOMAIN DispatchedFor(c, 1) : DispatchedFor(c, 1)[n][3] = 0
        /\ pc[c] = "settling"
        /\ Len(relevantQueries[c]) = 3
        /\ Len(batch[c]) = 1
        /\ Len(Dispatched(c)) = 3
        /\ DispatchedFor(c, 2)[3][3] = 2

(* --------------------------------- C21 --------------------------------- *)
\* the fulfilled settlements of a log, as (identifier, value) entries in the
\* order of the log
RECURSIVE FulfilledEntries(_)
FulfilledEntries(log) ==
    IF log = <<>> THEN <<>>
    ELSE (IF Head(log).outcome.status = "fulfilled"
          THEN << [id |-> Head(log).id, value |-> Head(log).outcome.value] >>
          ELSE <<>>) \o FulfilledEntries(Tail(log))

\* the outcome the log records for a query
OutcomeIn(log, id) == (CHOOSE e \in Range(log) : e.id = id).outcome

\* C21 as stated: processQueries yields the fulfilled results of a batch in
\* the order in which the queries completed.
C21_YieldsInCompletionOrder ==
    \A c \in Calls :
        pc[c] = "queries" => yieldLog[c] = FulfilledEntries(settleLog[c])

\* C21, amended: processQueries yields the fulfilled results of a batch in
\* the order in which the queries are listed in the batch, whatever the order
\* in which they completed.
C21_YieldsInBatchOrder ==
    \A c \in Calls :
        (pc[c] = "queries" /\ Len(Dispatched(c)) = Len(settleLog[c])) =>
            yieldLog[c] =
                FulfilledEntries([k \in DOMAIN Dispatched(c) |->
                                    [id |-> Dispatched(c)[k],
                                     outcome |-> OutcomeIn(settleLog[c], Dispatched(c)[k])]])

\* b has completed before a, both fulfilled, and a has been yielded before b
C21_Witness ==
    \E c \in Calls :
        /\ pc[c] = "queries"
        /\ Len(settleLog[c]) = 2
        /\ settleLog[c][1].id = "b" /\ settleLog[c][2].id = "a"
        /\ Len(yieldLog[c]) = 2
        /\ yieldLog[c][1].id = "a" /\ yieldLog[c][2].id = "b"

(* --------------------------------- C22 --------------------------------- *)
\* the queries whose execution has failed in the query stream in progress
FailedIds(c) == { e.id : e \in { x \in Range(settleLog[c]) : x.outcome = Rejected } }

\* C22: once the execution of a query has failed during a call, its
\* identifier is not present in calculatedValues at any later point of the
\* call; stated for the points up to the end of the query stream in which it
\* failed, which a finite run refutes.
C22_FailedQueryNeverPresent ==
    (UniqueTitles /\ maxConcurrentQueries >= 1) =>
        \A c \in Calls : FailedIds(c) \cap DOMAIN calculatedValues[c] = {}

(* --------------------------------- C23 --------------------------------- *)
\* the evaluation recorded by a log entry failed: its expression names an
\* identifier that was not in scope
Failed(e) ==
    EvaluateThrows(MetricOf(Panels[e.panel].metrics, e.id).expression,
                   [x \in e.scope |-> 0])

\* C23: when the evaluator fails on a metric the call ends with an error at
\* once: that evaluation is the last one of the call, no query is executed
\* and no panel result is produced for that panel or a later one.
C23_EvaluatorFailureAborts ==
    \A c \in Calls :
        \A n \in DOMAIN evalLog[c] :
            Failed(evalLog[c][n]) =>
                /\ pc[c] = "error"
                /\ n = Len(evalLog[c])
                /\ panelIdx[c] = evalLog[c][n].panel
                /\ Len(panelResults[c]) < evalLog[c][n].panel
                /\ \A k \in DOMAIN queryLog[c] : queryLog[c][k][1] <= evalLog[c][n].panel
                /\ InFlight(c) = 0

\* the evaluator has failed in the second panel, in each mode: the streaming
\* consumer holds the first panel's result and its second pull has failed
C23_Witness ==
    /\ \A c \in Calls :
         /\ pc[c] = "error"
         /\ panelIdx[c] = 2
         /\ Len(panelResults[c]) = 1
    /\ \E c \in Calls : useStream[c]
    /\ \E c \in Calls : ~useStream[c]

(* --------------------------------- C24 --------------------------------- *)
\* what the expressions of the chain denote, whatever the order of the list:
\* a query identifier stands for its value, a metric for its expression
RECURSIVE ValueOf(_, _)
RECURSIVE TermsOf(_, _)
ValueOf(id, values) ==
    IF id \in DOMAIN Queries THEN values[id]
    ELSE LET m == CHOOSE x \in ChainMetrics : x.id = id
         IN TermsOf(m.expression.syms, values) + m.expression.k

TermsOf(syms, values) ==
    IF syms = <<>> THEN 0
    ELSE ValueOf(Head(syms), values) + TermsOf(Tail(syms), values)

\* the queries of the chain were executed successfully for call c
ChainFed(c) == {"a", "b", "c"} \subseteq DOMAIN calculatedValues[c]

\* C24: a panel whose metrics can be evaluated in some order resolves under
\* every order of its metric list, forward references included: the resolver
\* never sweeps without progress, and the panel result holds one entry per
\* metric, the same (identifier, value) pairs whatever the order.
C24_EveryOrderSameResults ==
    \A c \in Calls :
        ChainFed(c) =>
            /\ ~idleSweeps[c]
            /\ Produced(c) =>
                 /\ Len(LastResult(c).results) = Cardinality(ChainMetrics)
                 /\ Range(LastResult(c).results) =
                        { [id |-> m.id, value |-> ValueOf(m.id, calculatedValues[c])] :
                            m \in ChainMetrics }

\* a panel that lists t, r, s, each metric before the one it depends on, has
\* been resolved after the three queries of the chain succeeded
C24_Witness ==
    /\ Panels[1].metrics[1].id = "t"
    /\ Panels[1].metrics[2].id = "r"
    /\ \E c \in Calls : ChainFed(c) /\ Produced(c) /\ Len(evalLog[c]) = 3

(* --------------------------------- C25 --------------------------------- *)
\* the value call c reported for identifier id in the result of a panel
\* before position j, or the binding of id when no such result lists it
ReportedBefore(c, j, id) ==
    IF \E h \in 1..(j - 1) : id \in Ids(panelResults[c][h].results)
    THEN LET h == CHOOSE h \in 1..(j - 1) : id \in Ids(panelResults[c][h].results)
             r == panelResults[c][h].results
         IN r[PositionOf(r, id)].value
    ELSE calculatedValues[c][id]

RECURSIVE SumReported(_, _, _)
SumReported(c, j, syms) ==
    IF syms = <<>> THEN 0
    ELSE ReportedBefore(c, j, Head(syms)) + SumReported(c, j, Tail(syms))

\* C25: on a dashboard with unique titles, every value reported for a metric
\* of a panel stays bound, unchanged, in calculatedValues for the rest of the
\* call and the metric is evaluated once; a metric that depends on a metric
\* of an earlier panel is evaluated with that metric in scope, after it, and
\* its value is computed from the value reported for the earlier panel.
C25_EarlierPanelValuesReused ==
    UniqueTitles =>
        \A c \in Calls :
            /\ \A j \in DOMAIN panelResults[c] :
                 \A e \in Range(panelResults[c][j].results) :
                    /\ e.id \in DOMAIN calculatedValues[c]
                    /\ calculatedValues[c][e.id] = e.value
                    /\ Occurrences(evalLog[c], e.id) = 1
            /\ \A n \in DOMAIN evalLog[c] :
                 LET en == evalLog[c][n]
                     m == MetricOf(Panels[en.panel].metrics, en.id)
                 IN \A d \in Range(m.dependencies) \cap MetricIdsUpTo(en.panel - 1) :
                        /\ d \in en.scope
                        /\ \E k \in 1..(n - 1) :
                             evalLog[c][k].id = d /\ evalLog[c][k].panel < en.panel
            /\ Produced(c) =>
                 LET j == Len(panelResults[c]) IN
                 \A e \in Range(LastResult(c).results) :
                    LET m == MetricOf(Panels[j].metrics, e.id)
                    IN e.value = SumReported(c, j, m.expression.syms) + m.expression.k

\* panel Q has been produced after panel P: avg was evaluated with the sum of
\* panel P, and sum was evaluated once
C25_Witness ==
    /\ Len(Panels) = 2
    /\ Panels[1].title = "P"
    /\ Panels[2].title = "Q"
    /\ \E c \in Calls :
         /\ Produced(c)
         /\ Len(panelResults[c]) = 2
         /\ Ids(evalLog[c]) = {"sum", "avg"}
         /\ Len(evalLog[c]) = 2

(* --------------------------------- C26 --------------------------------- *)
\* C26: in streaming mode executeQuery is called for a panel only once the
\* consumer has pulled as many times as the panel's position, and the
\* consumer pulls again only after it received the result of its last pull:
\* nothing is executed before the first pull, nor for panel k+1 before the
\* result of panel k was received and the next pull made. In aggregate mode
\* a call that has returned has processed every panel.
C26_StreamingLazyAggregateEager ==
    \A c \in Calls :
        /\ useStream[c] =>
             /\ \A k \in DOMAIN queryLog[c] :
                  /\ queryLog[c][k][1] <= pulls[c]
                  /\ queryLog[c][k][1] <= Len(panelResults[c]) + 1
             /\ \A n \in DOMAIN evalLog[c] : evalLog[c][n].panel <= pulls[c]
             /\ pulls[c] <= Len(panelResults[c]) + 1
        /\ (~useStream[c] /\ pc[c] = "done") =>
             /\ panelIdx[c] = Len(Panels) + 1
             /\ Len(panelResults[c]) = Len(Panels)

\* a streaming consumer holds the result of the first panel and has not
\* pulled again, while an aggregate call on the same dashboard has returned
\* the results of both panels
C26_Witness ==
    /\ Len(Panels) = 2
    /\ \E c \in Calls :
         /\ useStream[c]
         /\ pc[c] = "suspended"
         /\ pulls[c] = 1
         /\ Len(panelResults[c]) = 1
         /\ queryLog[c] # <<>>
    /\ \E c \in Calls :
         /\ ~useStream[c]
         /\ pc[c] = "done"
         /\ Len(panelResults[c]) = 2

(* --------------------------------- C27 --------------------------------- *)
\* call c is in the while loop of processCalculations or in one of its sweeps
Sweeping(c) == pc[c] \in {"while", "for", "yieldMetric"}

\* every query of the panel in progress was dispatched and has settled
AllBatchesSettled(c) ==
    /\ Len(queryEntries[c]) = 0
    /\ InFlight(c) = 0
    /\ toYield[c] = <<>>
    /\ Dispatched(c) = relevantQueries[c]

\* C27: the resolver of a panel sweeps, and a metric of the panel is
\* evaluated, only when every batch of the panel's queries has settled: a
\* metric evaluated for the panel in progress saw every successfully
\* executed query of the panel in its scope.
C27_EvaluationAfterAllBatches ==
    \A c \in Calls :
        /\ Sweeping(c) => AllBatchesSettled(c)
        /\ \A n \in DOMAIN evalLog[c] :
             (evalLog[c][n].panel = panelIdx[c] /\ pc[c] \notin {"done", "error"}) =>
                /\ AllBatchesSettled(c)
                /\ FulfilledIds(c) \subseteq evalLog[c][n].scope

\* with one query at a time, a panel of two queries has had a metric
\* evaluated after its two batches
C27_Witness ==
    \E c \in Calls :
        /\ maxConcurrentQueries = 1
        /\ Sweeping(c)
        /\ Len(relevantQueries[c]) = 2
        /\ Len(Dispatched(c)) = 2
        /\ \E n \in DOMAIN evalLog[c] : evalLog[c][n].panel = panelIdx[c]

(* --------------------------------- C28 --------------------------------- *)
\* the identifiers call c has passed to executeQuery for the panel at k
DispatchedAt(c, k) ==
    LET OfPanel(e) == e[1] = k
        log == SelectSeq(queryLog[c], OfPanel)
    IN [n \in DOMAIN log |-> log[n][2]]

\* the metrics call c has evaluated for the panel at k
EvaluatedAt(c, k) == { evalLog[c][n].id : n \in { h \in DOMAIN evalLog[c] : evalLog[c][h].panel = k } }

\* C28: the panel cache is consulted in streaming mode only. For a panel that
\* repeats an earlier title an aggregate call executes the panel's queries
\* and evaluates the panel's metrics again and returns the result of that
\* processing, while a streaming call delivers the result cached under the
\* title.
C28_AggregateIgnoresCache ==
    UniqueTitles \/
    \A c \in Calls :
        \A k \in DOMAIN panelResults[c] : FirstTitled(k) # k =>
            IF useStream[c]
            THEN panelResults[c][k] = panelResults[c][FirstTitled(k)]
            ELSE /\ DispatchedAt(c, k) = RelevantOf(Panels[k])
                 /\ EvaluatedAt(c, k) = MetricIds(Panels[k].metrics)
                 /\ Ids(panelResults[c][k].results) = MetricIds(Panels[k].metrics)
                 /\ panelResults[c][k].panel = Panels[k].title

\* on a dashboard whose second panel repeats the title of the first with
\* another metric, the aggregate call has returned two different results and
\* the streaming call has delivered the first result twice
C28_Witness ==
    /\ Len(Panels) = 2
    /\ Panels[1].title = Panels[2].title
    /\ Panels[1].metrics # Panels[2].metrics
    /\ \E c \in Calls :
         /\ ~useStream[c]
         /\ Len(panelResults[c]) = 2
         /\ panelResults[c][1] # panelResults[c][2]
         /\ Len(queryLog[c]) > Len(RelevantOf(Panels[1]))
    /\ \E c \in Calls :
         /\ useStream[c]
         /\ Len(panelResults[c]) = 2
         /\ panelResults[c][1] = panelResults[c][2]

(* --------------------------------- C29 --------------------------------- *)
\* metric m of the panel at k depends on an identifier that is no query and
\* that only a later panel declares as a metric
ForwardOnly(k, m) ==
    \E d \in Range(m.dependencies) :
        /\ d \notin DOMAIN Queries
        /\ d \notin MetricIdsUpTo(k)
        /\ \E j \in (k + 1)..Len(Panels) : d \in MetricIds(Panels[j].metrics)

\* C29: on a dashboard with unique titles, a metric that depends on a metric
\* declared only in a later panel is never evaluated and never bound, and the
\* call never gets past its panel: no result is produced for that panel or a
\* later one and the call does not end normally.
C29_ForwardPanelReferenceStalls ==
    UniqueTitles =>
        \A k \in DOMAIN Panels : \A m \in Range(Panels[k].metrics) :
            ForwardOnly(k, m) => \A c \in Calls :
                /\ panelIdx[c] <= k
                /\ Len(panelResults[c]) < k
                /\ m.id \notin EvaluatedAt(c, k)
                /\ m.id \notin DOMAIN calculatedValues[c]
                /\ pc[c] # "done"

\* panel Q comes before panel P, whose metric sum it needs: query c has
\* succeeded and the resolver of Q has completed a sweep without progress
C29_Witness ==
    /\ Len(Panels) = 2
    /\ Panels[1].title = "Q"
    /\ Panels[2].title = "P"
    /\ Panels[2].metrics[1].id = "sum"
    /\ \E c \in Calls :
         /\ idleSweeps[c]
         /\ "c" \in DOMAIN calculatedValues[c]
         /\ panelIdx[c] = 1

(* --------------------------------- C30 --------------------------------- *)
\* C30: with a ceiling N <= 0, processQueries never calls executeQuery and
\* never ends for a panel with at least one query: every batch it cuts off
\* is empty, nothing is in flight, the entries left are all the entries it
\* was given, and the call never reaches the resolver's sweeps, a panel
\* result or its end.
C30_NonPositiveCeilingNeverDispatches ==
    maxConcurrentQueries <= 0 =>
        \A c \in Calls :
            /\ queryLog[c] = <<>>
            /\ batch[c] = <<>>
            /\ InFlight(c) = 0
            /\ yieldLog[c] = <<>>
            /\ (pc[c] \in {"queries", "settling"} /\ Len(relevantQueries[c]) > 0) =>
                 queryEntries[c] = relevantQueries[c]
            /\ Len(RelevantOf(Panels[1])) > 0 =>
                 /\ pc[c] \in {"idle", "suspended", "panel", "queries", "settling"}
                 /\ panelIdx[c] <= 1
                 /\ panelResults[c] = <<>>

\* with a negative ceiling the batcher awaits an empty batch while both
\* queries of the panel are still to be taken
C30_Witness ==
    /\ maxConcurrentQueries < 0
    /\ \E c \in Calls :
         /\ pc[c] = "settling"
         /\ batch[c] = <<>>
         /\ Len(queryEntries[c]) = 2
====
